---- MODULE Spec2Model ----
(***************************************************************************)
(* RDT2.1 stop-and-wait file transfer over UDP (package rdtftp).            *)
(*                                                                         *)
(* Bytes are natural numbers, byte strings are sequences of them.  A       *)
(* datagram on the wire is the 11-field header followed by the payload.    *)
(* JSON text is a byte string too: a document is written field by field   *)
(* as <<key, length, value bytes...>> and parsed back by json_loads.       *)
(* The disk of the receiver maps a path <<name, suffix, timestamp>> to the *)
(* bytes of the file stored there.                                         *)
(*                                                                         *)
(* The network keeps every datagram ever sent: a datagram may be handed to *)
(* its destination never (loss), once, several times (duplication), in any *)
(* order (reordering), and altered (corruption).                           *)
(***************************************************************************)
EXTENDS Integers, Sequences, FiniteSets, TLC

(* ---------------------------------------------------------------------- *)
(* Bounds of the model                                                    *)
(* ---------------------------------------------------------------------- *)
MaxFileSize == 2
MaxChunkSize == 2
max_retries == 1
MaxRuns == 2
MaxCrashes == 1
MaxTime == 1
FidDigits == 2

(* ---------------------------------------------------------------------- *)
(* protocol.py: constants                                                 *)
(* ---------------------------------------------------------------------- *)
MAGIC == 51966
VERSION == 1
HEADER_LEN == 32

SYN == 1
SYN_ACK == 2
DATA == 3
ACK == 4
FIN == 5
FIN_ACK == 6
ERR == 7

FLAG_RESUME == 1
FLAG_EOF == 2
FLAG_RESUME_OK == 4
FLAG_META_JSON == 8

HexBase == 16

\* (flags & f) != 0 for a one-bit mask f
HasFlag(flags, f) == (flags \div f) % 2 = 1

\* a | b for masks with no common bit
BitOr(a, b) == IF b = 0 \/ HasFlag(a, b) THEN a ELSE a + b

Min(a, b) == IF a < b THEN a ELSE b

Max(a, b) == IF a > b THEN a ELSE b

(* ---------------------------------------------------------------------- *)
(* Byte strings                                                           *)
(* ---------------------------------------------------------------------- *)
\* data[lo:hi] of Python, 0-based and half open, clipped to the data
Slice(data, lo, hi) ==
    LET h == Min(hi, Len(data))
    IN  IF lo >= h THEN <<>> ELSE SubSeq(data, lo + 1, h)

IsPrefix(p, full) == Len(p) <= Len(full) /\ SubSeq(full, 1, Len(p)) = p

\* texts the program sends, as byte strings
MSG_BAD_CHECKSUM == <<98, 97, 100>>
MSG_SHORT == <<115, 104>>
MSG_BAD_HEADER == <<98, 104>>
MSG_NO_META == <<110, 111>>
MSG_RESUME == <<114, 101>>
MSG_NEW == <<110, 101>>

(* ---------------------------------------------------------------------- *)
(* protocol.py: Packet, encode, decode                                    *)
(* ---------------------------------------------------------------------- *)
Packet(ptype, flags, file_id, seq, ack, chunk_id, payload) ==
    [ptype |-> ptype, flags |-> flags, file_id |-> file_id, seq |-> seq,
     ack |-> ack, chunk_id |-> chunk_id, payload |-> payload]

\* zlib.crc32 over a byte string: a position-sensitive checksum
RECURSIVE CrcFrom(_, _, _)
CrcFrom(data, i, h) ==
    IF i > Len(data) THEN h
    ELSE CrcFrom(data, i + 1, (h * 31 + data[i] + 1) % 65521)

crc32(data) == CrcFrom(data, 1, 7)

\* a header whose ack field is filled from seq
PackHeaderAckFromSeq(ptype, flags, file_id, seq, ack, chunk_id, payload_len, checksum) ==
    <<MAGIC, VERSION, ptype, flags, HEADER_LEN, file_id, seq, seq, chunk_id,
      payload_len, checksum>>

\* struct.pack(HEADER_FMT, ...) with the given checksum field
PackHeader(ptype, flags, file_id, seq, ack, chunk_id, payload_len, checksum) ==
    <<MAGIC, VERSION, ptype, flags, HEADER_LEN, file_id, seq, ack, chunk_id,
      payload_len, checksum>>

encode(p) ==
    LET payload_len == Len(p.payload)
        header_wo_checksum ==
            PackHeader(p.ptype, p.flags, p.file_id, p.seq, p.ack, p.chunk_id,
                       payload_len % 65536, 0)
        checksum == crc32(header_wo_checksum \o p.payload)
    IN  [hdr |-> PackHeader(p.ptype, p.flags, p.file_id, p.seq, p.ack,
                            p.chunk_id, payload_len % 65536, checksum),
         body |-> p.payload]

\* Packet.decode: <<packet, ok>> as a record
decode(d) ==
    IF Len(d.hdr) < 11
    THEN [pkt |-> Packet(ERR, 0, 0, 0, 0, 0, MSG_SHORT), ok |-> FALSE]
    ELSE IF d.hdr[1] # MAGIC \/ d.hdr[2] # VERSION \/ d.hdr[5] # HEADER_LEN
    THEN [pkt |-> Packet(ERR, 0, 0, 0, 0, 0, MSG_BAD_HEADER), ok |-> FALSE]
    ELSE LET payload_len == d.hdr[10]
             checksum == d.hdr[11]
             payload == Slice(d.body, 0, payload_len)
             header_wo_checksum ==
                 PackHeader(d.hdr[3], d.hdr[4], d.hdr[6], d.hdr[7], d.hdr[8],
                            d.hdr[9], payload_len, 0)
             calc == crc32(header_wo_checksum \o payload)
         IN  [pkt |-> Packet(d.hdr[3], d.hdr[4], d.hdr[6], d.hdr[7], d.hdr[8],
                             d.hdr[9], payload),
              ok |-> (calc = checksum)]

(* ---------------------------------------------------------------------- *)
(* JSON documents: a dict is a function from keys to values (byte strings; *)
(* an integer n is the one-element value <<n>>)                            *)
(* ---------------------------------------------------------------------- *)
K_filename == 1
K_file_id == 2
K_filesize == 3
K_chunk_size == 4
K_sha256 == 5
K_next_chunk == 6
K_updated_at == 7
K_message == 8

EmptyDict == [k \in {} |-> <<>>]
JsonInvalid == [k \in {0} |-> <<>>]

RECURSIVE DumpFrom(_, _)
DumpFrom(obj, k) ==
    IF k > K_message THEN <<>>
    ELSE (IF k \in DOMAIN obj THEN <<k, Len(obj[k])>> \o obj[k] ELSE <<>>)
         \o DumpFrom(obj, k + 1)

json_dumps(obj) == DumpFrom(obj, 1)

RECURSIVE json_loads(_)
json_loads(text) ==
    IF text = <<>> THEN EmptyDict
    ELSE IF Len(text) < 2 THEN JsonInvalid
    ELSE IF text[1] \notin K_filename..K_message THEN JsonInvalid
    ELSE IF Len(text) < 2 + text[2] THEN JsonInvalid
    ELSE LET rest == json_loads(Slice(text, 2 + text[2], Len(text)))
         IN  IF rest = JsonInvalid THEN JsonInvalid
             ELSE [k \in (DOMAIN rest) \cup {text[1]} |->
                     IF k = text[1] THEN Slice(text, 2, 2 + text[2])
                     ELSE rest[k]]

\* dict.get(key, default)
DictGet(obj, k, default) == IF k \in DOMAIN obj THEN obj[k] ELSE default

\* int(v) of a value holding an integer
IntOf(v) == v[1]

(* ---------------------------------------------------------------------- *)
(* utils.py                                                               *)
(* ---------------------------------------------------------------------- *)
HashLen == MaxFileSize + MaxChunkSize + 2

\* hashlib.sha256(...).hexdigest(): a fixed-length digest that differs for
\* any two contents the model can hold
sha256_bytes(content) ==
    [i \in 1..HashLen |->
        IF i = 1 THEN Len(content)
        ELSE IF i - 1 <= Len(content) THEN content[i - 1] ELSE 0]

RECURSIVE HexToInt(_)
HexToInt(digits) ==
    IF digits = <<>> THEN 0
    ELSE HexToInt(SubSeq(digits, 1, Len(digits) - 1)) * HexBase
         + digits[Len(digits)]

file_id_from_sha256(sha256_hex) == HexToInt(Slice(sha256_hex, 0, FidDigits))

(* ---------------------------------------------------------------------- *)
(* The receiver's disk: path -> bytes                                     *)
(* ---------------------------------------------------------------------- *)
PartPath(filename) == <<filename, "part", 0>>
MetaPath(filename) == <<filename, "rdtmeta.json", 0>>
FinalPath(filename) == <<filename, "", 0>>
\* path.with_suffix(path.suffix + ".bak_<int(time.time())>")
BackupPath(path, ts) == <<path[1], IF path[2] = "" THEN "bak" ELSE "part.bak", ts>>

PathExists(fs, path) == path \in DOMAIN fs

WriteFile(fs, path, bytes) ==
    [q \in (DOMAIN fs) \cup {path} |-> IF q = path THEN bytes ELSE fs[q]]

\* open(path, "ab").write(bytes)
AppendFile(fs, path, bytes) ==
    WriteFile(fs, path, (IF PathExists(fs, path) THEN fs[path] ELSE <<>>) \o bytes)

\* Path.rename: an existing destination is replaced
RenameFile(fs, src, dst) ==
    [q \in ((DOMAIN fs) \ {src}) \cup {dst} |-> IF q = dst THEN fs[src] ELSE fs[q]]

\* Path.unlink(missing_ok=True)
UnlinkFile(fs, path) == [q \in (DOMAIN fs) \ {path} |-> fs[q]]

EmptyDisk == [q \in {} |-> <<>>]

\* utils.sha256_file
sha256_file(fs, path) == sha256_bytes(fs[path])

\* utils.load_json
load_json(fs, path, default) ==
    IF ~PathExists(fs, path) THEN default
    ELSE LET obj == json_loads(fs[path])
         IN  IF obj = JsonInvalid THEN default ELSE obj

\* the session dict as a JSON document, and back
SessionDict(s) ==
    [k \in K_filename..K_updated_at |->
        CASE k = K_filename -> s.filename
          [] k = K_file_id -> <<s.file_id>>
          [] k = K_filesize -> <<s.filesize>>
          [] k = K_chunk_size -> <<s.chunk_size>>
          [] k = K_sha256 -> s.sha256
          [] k = K_next_chunk -> <<s.next_chunk>>
          [] OTHER -> <<s.updated_at>>]

DictSession(obj) ==
    [filename |-> obj[K_filename], file_id |-> IntOf(obj[K_file_id]),
     filesize |-> IntOf(obj[K_filesize]), chunk_size |-> IntOf(obj[K_chunk_size]),
     sha256 |-> obj[K_sha256], next_chunk |-> IntOf(obj[K_next_chunk]),
     updated_at |-> IntOf(obj[K_updated_at])]

\* utils.save_json
save_json(fs, path, s) == WriteFile(fs, path, json_dumps(SessionDict(s)))

\* dict.get(key) of a key that is missing: None
NoneVal == <<-1>>

(* ---------------------------------------------------------------------- *)
(* receiver.py: the packet handlers.  A handler is the list of the states  *)
(* the receiver passes through, one per effect (a write, a rename, an      *)
(* unlink, a sendto); R is [sessions, fs, out, log]: the session map in    *)
(* memory, the disk, the packets sent so far by this handler and the       *)
(* effects so far, by name.                                                *)
(* ---------------------------------------------------------------------- *)
SendTo(R, pkt) == [R EXCEPT !.out = Append(@, pkt), !.log = Append(@, "sendto")]

OnDisk(R, effect, newfs) == [R EXCEPT !.fs = newfs, !.log = Append(@, effect)]

Last(steps, R) == IF steps = <<>> THEN R ELSE steps[Len(steps)]

\* an exception is raised: the handler executes nothing after it
Raise(R) == [R EXCEPT !.log = Append(@, "raise")]

HasRaised(R) == R.log # <<>> /\ R.log[Len(R.log)] = "raise"

\* a session loader that leaves the .part of another transfer in place
LoadOrInitSessionKeepingPart(R, meta, now) ==
    LET part_path == PartPath(meta.filename)
        meta_path == MetaPath(meta.filename)
        loaded == load_json(R.fs, meta_path, EmptyDict)
        mismatch ==
            \/ DictGet(loaded, K_file_id, NoneVal) # <<meta.file_id>>
            \/ DictGet(loaded, K_sha256, NoneVal) # meta.sha256
            \/ DictGet(loaded, K_chunk_size, NoneVal) # <<meta.chunk_size>>
            \/ DictGet(loaded, K_filesize, NoneVal) # <<meta.filesize>>
    IN  IF mismatch
        THEN LET s == [filename |-> meta.filename, file_id |-> meta.file_id,
                       filesize |-> meta.filesize, chunk_size |-> meta.chunk_size,
                       sha256 |-> meta.sha256, next_chunk |-> 0, updated_at |-> now]
                 had == FALSE
                 R1 == IF had
                       THEN OnDisk(R, "rename_part_aside",
                                   RenameFile(R.fs, part_path, BackupPath(part_path, now)))
                       ELSE R
                 R2 == OnDisk(R1, "save_json", save_json(R1.fs, meta_path, s))
             IN  [s |-> s, steps |-> (IF had THEN <<R1>> ELSE <<>>) \o <<R2>>]
        ELSE IF PathExists(R.fs, part_path) /\ meta.chunk_size = 0
        THEN [s |-> DictSession(loaded), steps |-> << Raise(R) >>]
        ELSE LET s0 == DictSession(loaded)
                 s == IF PathExists(R.fs, part_path)
                      THEN [s0 EXCEPT !.next_chunk =
                                Len(R.fs[part_path]) \div meta.chunk_size]
                      ELSE s0
             IN  [s |-> s,
                  steps |-> <<OnDisk(R, "save_json", save_json(R.fs, meta_path, s))>>]

\* _load_or_init_session: the session and the states passed through
LoadOrInitSession(R, meta, now) ==
    LET part_path == PartPath(meta.filename)
        meta_path == MetaPath(meta.filename)
        loaded == load_json(R.fs, meta_path, EmptyDict)
        mismatch ==
            \/ DictGet(loaded, K_file_id, NoneVal) # <<meta.file_id>>
            \/ DictGet(loaded, K_sha256, NoneVal) # meta.sha256
            \/ DictGet(loaded, K_chunk_size, NoneVal) # <<meta.chunk_size>>
            \/ DictGet(loaded, K_filesize, NoneVal) # <<meta.filesize>>
    IN  IF mismatch
        THEN LET s == [filename |-> meta.filename, file_id |-> meta.file_id,
                       filesize |-> meta.filesize, chunk_size |-> meta.chunk_size,
                       sha256 |-> meta.sha256, next_chunk |-> 0, updated_at |-> now]
                 had == PathExists(R.fs, part_path)
                 R1 == IF had
                       THEN OnDisk(R, "rename_part_aside",
                                   RenameFile(R.fs, part_path, BackupPath(part_path, now)))
                       ELSE R
                 R2 == OnDisk(R1, "save_json", save_json(R1.fs, meta_path, s))
             IN  [s |-> s, steps |-> (IF had THEN <<R1>> ELSE <<>>) \o <<R2>>]
        ELSE IF PathExists(R.fs, part_path) /\ meta.chunk_size = 0
        THEN [s |-> DictSession(loaded), steps |-> << Raise(R) >>]
        ELSE LET s0 == DictSession(loaded)
                 s == IF PathExists(R.fs, part_path)
                      THEN [s0 EXCEPT !.next_chunk =
                                Len(R.fs[part_path]) \div meta.chunk_size]
                      ELSE s0
             IN  [s |-> s,
                  steps |-> <<OnDisk(R, "save_json", save_json(R.fs, meta_path, s))>>]

\* the filename the meta of a SYN names, "recv.bin" when it names none
DEFAULT_FILENAME == <<114>>

\* a SYN-ACK payload that always tells the sender to start at chunk 0
SynAckPayloadFromZero(next_chunk, message) ==
    json_dumps([k \in {K_next_chunk, K_message} |->
                   IF k = K_next_chunk THEN <<0>> ELSE message])

\* the JSON payload of a SYN-ACK
SynAckPayload(next_chunk, message) ==
    json_dumps([k \in {K_next_chunk, K_message} |->
                   IF k = K_next_chunk THEN <<next_chunk>> ELSE message])

\* a SYN handler that opens a session of default metadata for a SYN
\* without META-JSON
HandleSynWithDefaults(R, pkt, now) ==
    IF FALSE THEN <<>>
    ELSE IF HasFlag(pkt.flags, FLAG_META_JSON) /\ json_loads(pkt.payload) = JsonInvalid
    THEN << Raise(R) >>
    ELSE LET meta == IF HasFlag(pkt.flags, FLAG_META_JSON)
                     THEN json_loads(pkt.payload) ELSE EmptyDict
             sess_meta ==
                 [filename |-> DictGet(meta, K_filename, DEFAULT_FILENAME),
                  filesize |-> IntOf(DictGet(meta, K_filesize, <<0>>)),
                  chunk_size |-> IntOf(DictGet(meta, K_chunk_size, <<1024>>)),
                  sha256 |-> DictGet(meta, K_sha256, <<>>),
                  file_id |-> pkt.file_id]
             li == LoadOrInitSession(R, sess_meta, now)
             R1 == Last(li.steps, R)
             R2 == [R1 EXCEPT !.sessions =
                        [f \in (DOMAIN @) \cup {pkt.file_id} |->
                            IF f = pkt.file_id THEN li.s ELSE @[f]]]
             resume == HasFlag(pkt.flags, FLAG_RESUME)
             next_chunk == IF resume THEN li.s.next_chunk ELSE 0
             flags == IF resume THEN FLAG_RESUME_OK ELSE 0
         IN  IF HasRaised(R1) THEN li.steps
             ELSE li.steps \o
             << SendTo(R2, Packet(SYN_ACK, BitOr(flags, FLAG_META_JSON),
                                  pkt.file_id, 0, 0, 0,
                                  SynAckPayload(next_chunk,
                                      IF resume THEN MSG_RESUME ELSE MSG_NEW))) >>

\* _handle_syn
HandleSyn(R, pkt, now) ==
    IF ~HasFlag(pkt.flags, FLAG_META_JSON)
    THEN << SendTo(R, Packet(SYN_ACK, 0, pkt.file_id, 0, 0, 0,
                             SynAckPayload(0, MSG_NO_META))) >>
    ELSE IF json_loads(pkt.payload) = JsonInvalid THEN << Raise(R) >>
    ELSE LET meta == json_loads(pkt.payload)
             sess_meta ==
                 [filename |-> DictGet(meta, K_filename, DEFAULT_FILENAME),
                  filesize |-> IntOf(DictGet(meta, K_filesize, <<0>>)),
                  chunk_size |-> IntOf(DictGet(meta, K_chunk_size, <<1024>>)),
                  sha256 |-> DictGet(meta, K_sha256, <<>>),
                  file_id |-> pkt.file_id]
             li == LoadOrInitSession(R, sess_meta, now)
             R1 == Last(li.steps, R)
             R2 == [R1 EXCEPT !.sessions =
                        [f \in (DOMAIN @) \cup {pkt.file_id} |->
                            IF f = pkt.file_id THEN li.s ELSE @[f]]]
             resume == HasFlag(pkt.flags, FLAG_RESUME)
             next_chunk == IF resume THEN li.s.next_chunk ELSE 0
             flags == IF resume THEN FLAG_RESUME_OK ELSE 0
         IN  IF HasRaised(R1) THEN li.steps
             ELSE li.steps \o
             << SendTo(R2, Packet(SYN_ACK, BitOr(flags, FLAG_META_JSON),
                                  pkt.file_id, 0, 0, 0,
                                  SynAckPayload(next_chunk,
                                      IF resume THEN MSG_RESUME ELSE MSG_NEW))) >>

\* a hash test that lets every file through
HashNeverCompared(sha256, got) == TRUE

\* a hash test that compares only the lengths of the digests
HashAcceptedByLength(sha256, got) == sha256 = <<>> \/ Len(got) = Len(sha256)

\* _finalize_if_complete: does the hash test let the file through?
HashAccepted(sha256, got) == ~(sha256 # <<>> /\ got # sha256)

\* _finalize_if_complete
FinalizeIfComplete(R, fid, now) ==
    IF fid \notin DOMAIN R.sessions THEN <<>>
    ELSE LET s == R.sessions[fid]
             part_path == PartPath(s.filename)
             meta_path == MetaPath(s.filename)
             final_path == FinalPath(s.filename)
         IN  IF ~PathExists(R.fs, part_path) THEN <<>>
             ELSE IF Len(R.fs[part_path]) < s.filesize THEN <<>>
             ELSE IF ~HashAccepted(s.sha256, sha256_file(R.fs, part_path)) THEN <<>>
             ELSE LET had == PathExists(R.fs, final_path)
                      R1 == IF had
                            THEN OnDisk(R, "rename_final_aside",
                                        RenameFile(R.fs, final_path,
                                                   BackupPath(final_path, now)))
                            ELSE R
                      R2 == OnDisk(R1, "rename_part_final",
                                   RenameFile(R1.fs, part_path, final_path))
                      R3 == OnDisk(R2, "unlink_meta", UnlinkFile(R2.fs, meta_path))
                  IN  (IF had THEN <<R1>> ELSE <<>>) \o <<R2, R3>>

\* a test that also takes a chunk that was written before
IsExpectedOrEarlier(pkt, expected) == pkt.chunk_id <= expected /\ pkt.seq <= expected

\* the stop-and-wait test of _handle_data: is the packet the expected chunk?
IsExpected(pkt, expected) == pkt.chunk_id = expected /\ pkt.seq = expected

\* a reject that acknowledges the chunk it waits for
RejectAckExpected(expected) == expected

\* _handle_data: the chunk acknowledged when the packet is not the expected one
RejectAck(expected) == IF expected > 0 THEN expected - 1 ELSE 0

\* an accept that acknowledges the chunk before the meta file is saved
AcceptChunkAckFirst(R, pkt, s, now) ==
    LET fid == pkt.file_id
        expected == s.next_chunk
        R1 == OnDisk(R, "append", AppendFile(R.fs, PartPath(s.filename), pkt.payload))
        R2 == SendTo(R1, Packet(ACK, 0, fid, 0, expected, expected, <<>>))
        s2 == [s EXCEPT !.next_chunk = expected + 1, !.updated_at = now]
        R3 == [OnDisk(R2, "save_json", save_json(R2.fs, MetaPath(s.filename), s2))
                  EXCEPT !.sessions[fid] = s2]
    IN  <<R1, R2, R3>>

\* _handle_data: the effects of accepting the expected chunk, up to the ACK
AcceptChunk(R, pkt, s, now) ==
    LET fid == pkt.file_id
        expected == s.next_chunk
        R1 == OnDisk(R, "append", AppendFile(R.fs, PartPath(s.filename), pkt.payload))
        s2 == [s EXCEPT !.next_chunk = expected + 1, !.updated_at = now]
        R2 == [OnDisk(R1, "save_json", save_json(R1.fs, MetaPath(s.filename), s2))
                  EXCEPT !.sessions[fid] = s2]
        R3 == SendTo(R2, Packet(ACK, 0, fid, 0, expected, expected, <<>>))
    IN  <<R1, R2, R3>>

\* a DATA handler that answers a packet of a session it does not know
HandleDataAckingUnknown(R, pkt, now) ==
    LET fid == pkt.file_id
    IN  IF fid \notin DOMAIN R.sessions
        THEN << SendTo(R, Packet(ACK, 0, fid, 0, 0, 0, <<>>)) >>
        ELSE LET s == R.sessions[fid]
                 expected == s.next_chunk
             IN  IF ~IsExpected(pkt, expected)
                 THEN LET ack_id == RejectAck(expected)
                      IN  << SendTo(R, Packet(ACK, 0, fid, 0, ack_id, ack_id, <<>>)) >>
                 ELSE LET acc == AcceptChunk(R, pkt, s, now)
                      IN  acc \o
                          (IF HasFlag(pkt.flags, FLAG_EOF)
                           THEN FinalizeIfComplete(acc[3], fid, now) ELSE <<>>)

\* _handle_data
HandleData(R, pkt, now) ==
    LET fid == pkt.file_id
    IN  IF fid \notin DOMAIN R.sessions THEN <<>>
        ELSE LET s == R.sessions[fid]
                 expected == s.next_chunk
             IN  IF ~IsExpected(pkt, expected)
                 THEN LET ack_id == RejectAck(expected)
                      IN  << SendTo(R, Packet(ACK, 0, fid, 0, ack_id, ack_id, <<>>)) >>
                 ELSE LET acc == AcceptChunk(R, pkt, s, now)
                      IN  acc \o
                          (IF HasFlag(pkt.flags, FLAG_EOF)
                           THEN FinalizeIfComplete(acc[3], fid, now) ELSE <<>>)

\* a FIN handler that answers only for a session it knows
HandleFinKnownOnly(R, pkt, now) ==
    IF pkt.file_id \notin DOMAIN R.sessions THEN <<>>
    ELSE LET fin == FinalizeIfComplete(R, pkt.file_id, now)
         IN  fin \o << SendTo(Last(fin, R),
                              Packet(FIN_ACK, 0, pkt.file_id, 0, pkt.seq, 0, <<>>)) >>

\* _handle_fin
HandleFin(R, pkt, now) ==
    LET fin == IF pkt.file_id \in DOMAIN R.sessions
               THEN FinalizeIfComplete(R, pkt.file_id, now) ELSE <<>>
    IN  fin \o << SendTo(Last(fin, R),
                         Packet(FIN_ACK, 0, pkt.file_id, 0, pkt.seq, 0, <<>>)) >>

\* a loop body that answers a datagram it cannot decode with the reason
\* decode gives
ServeOneEchoingReason(R, data, now) ==
    LET dec == decode(data)
        pkt == dec.pkt
    IN  IF ~dec.ok
        THEN << SendTo(R, Packet(ERR, 0, 0, 0, 0, 0, pkt.payload)) >>
        ELSE IF pkt.ptype = SYN THEN HandleSyn(R, pkt, now)
        ELSE IF pkt.ptype = DATA THEN HandleData(R, pkt, now)
        ELSE IF pkt.ptype = FIN THEN HandleFin(R, pkt, now)
        ELSE <<>>

\* the body of the loop of serve_forever for one datagram
ServeOne(R, data, now) ==
    LET dec == decode(data)
        pkt == dec.pkt
    IN  IF ~dec.ok
        THEN << SendTo(R, Packet(ERR, 0, 0, 0, 0, 0, MSG_BAD_CHECKSUM)) >>
        ELSE IF pkt.ptype = SYN THEN HandleSyn(R, pkt, now)
        ELSE IF pkt.ptype = DATA THEN HandleData(R, pkt, now)
        ELSE IF pkt.ptype = FIN THEN HandleFin(R, pkt, now)
        ELSE <<>>

(* ---------------------------------------------------------------------- *)
(* sender.py                                                              *)
(* ---------------------------------------------------------------------- *)
\* file_path.name of the file being sent
SRC_NAME == <<102>>

\* the source file of a given size: byte i of it is i
SourceFile(size) == [i \in 1..size |-> i]

TotalChunks(size, cs) == (size + cs - 1) \div cs

\* send_file: the SYN packet
SynPacket(file, cs, resume) ==
    LET sha256 == sha256_bytes(file)
        fid == file_id_from_sha256(sha256)
        meta == [k \in {K_filename, K_filesize, K_chunk_size, K_sha256} |->
                    CASE k = K_filename -> SRC_NAME
                      [] k = K_filesize -> <<Len(file)>>
                      [] k = K_chunk_size -> <<cs>>
                      [] OTHER -> sha256]
        syn_flags == BitOr(FLAG_META_JSON, IF resume THEN FLAG_RESUME ELSE 0)
    IN  Packet(SYN, syn_flags, fid, 0, 0, 0, json_dumps(meta))

\* a DATA packet that has EOF when its payload is shorter than a chunk
DataPacketEofWhenShort(file, cs, chunk_id) ==
    LET payload == Slice(file, chunk_id * cs, (chunk_id + 1) * cs)
    IN  Packet(DATA, IF Len(payload) < cs THEN FLAG_EOF ELSE 0,
               file_id_from_sha256(sha256_bytes(file)), chunk_id, 0, chunk_id, payload)

\* send_file: the DATA packet of chunk chunk_id (seek, then sequential reads)
DataPacket(file, cs, chunk_id) ==
    LET total_chunks == TotalChunks(Len(file), cs)
        payload == Slice(file, chunk_id * cs, (chunk_id + 1) * cs)
        eof == (chunk_id = total_chunks - 1)
    IN  Packet(DATA, IF eof THEN FLAG_EOF ELSE 0,
               file_id_from_sha256(sha256_bytes(file)), chunk_id, 0, chunk_id, payload)

\* send_file: the FIN packet
FinPacket(file, cs) ==
    LET total_chunks == TotalChunks(Len(file), cs)
    IN  Packet(FIN, 0, file_id_from_sha256(sha256_bytes(file)), total_chunks, 0,
               total_chunks, <<>>)

\* the packet of the _send_and_wait call the sender is in
PendingPacket(s, file, cs) ==
    CASE s.state = "HANDSHAKING" -> SynPacket(file, cs, s.resume)
      [] s.state = "SENDING" -> DataPacket(file, cs, s.chunk_id)
      [] OTHER -> FinPacket(file, cs)

Waiting(s) == s.state \in {"HANDSHAKING", "SENDING", "TERMINATING"}

\* a test of the response that takes the ACK of any chunk
IsExpectedResponseAnyAck(s, rpkt, ok) ==
    /\ ok
    /\ rpkt.ptype = (CASE s.state = "HANDSHAKING" -> SYN_ACK
                       [] s.state = "SENDING" -> ACK
                       [] OTHER -> FIN_ACK)

\* _send_and_wait: is rpkt (decoded with flag ok) the response waited for?
IsExpectedResponse(s, rpkt, ok) ==
    /\ ok
    /\ rpkt.ptype = (CASE s.state = "HANDSHAKING" -> SYN_ACK
                       [] s.state = "SENDING" -> ACK
                       [] OTHER -> FIN_ACK)
    /\ (s.state = "SENDING" => rpkt.ack = s.chunk_id)

\* send_file: next_chunk of the SYN-ACK payload, 0 when it cannot be read
ParseNextChunk(payload) ==
    IF payload = <<>> THEN 0
    ELSE LET info == json_loads(payload)
         IN  IF info = JsonInvalid THEN 0
             ELSE IF DictGet(info, K_next_chunk, <<0>>) = <<>> THEN 0
             ELSE IntOf(DictGet(info, K_next_chunk, <<0>>))

\* send_file: the sender after _send_and_wait returned rpkt
AfterResponse(s, rpkt, file, cs) ==
    LET total_chunks == TotalChunks(Len(file), cs)
        first == IF s.state = "HANDSHAKING" THEN ParseNextChunk(rpkt.payload)
                 ELSE s.chunk_id + 1
    IN  IF s.state = "TERMINATING"
        THEN [s EXCEPT !.state = "DONE", !.retries = 0, !.fin_acked = TRUE]
        ELSE IF first < total_chunks
        THEN [s EXCEPT !.state = "SENDING", !.chunk_id = first,
                       !.retries = 0, !.sends = 1]
        ELSE [s EXCEPT !.state = "TERMINATING", !.chunk_id = first,
                       !.retries = 0, !.sends = 1]

\* a timeout that is fatal in the FIN exchange too
AfterTimeoutAlwaysFatal(s) ==
    IF s.retries + 1 > max_retries
    THEN [s EXCEPT !.retries = @ + 1, !.state = "ABORTED"]
    ELSE [s EXCEPT !.retries = @ + 1, !.sends = @ + 1]

\* _send_and_wait after socket.timeout
AfterTimeout(s) ==
    IF s.retries + 1 > max_retries
    THEN [s EXCEPT !.retries = @ + 1,
                   !.state = IF s.state = "TERMINATING" THEN "DONE" ELSE "ABORTED"]
    ELSE [s EXCEPT !.retries = @ + 1, !.sends = @ + 1]

\* a discard that counts as a retry
AfterDiscardCountingRetry(s) == [s EXCEPT !.sends = @ + 1, !.retries = @ + 1]

\* _send_and_wait after a response that is not the one waited for: the
\* loop starts over, with sendto
AfterDiscard(s) == [s EXCEPT !.sends = @ + 1]

(* ---------------------------------------------------------------------- *)
(* The system: one sender, the network, one receiver                      *)
(* ---------------------------------------------------------------------- *)
VARIABLES
    src,        \* the bytes of the file the sender sends
    chunk_size, \* SenderConfig.chunk_size
    snd,        \* the sender: where send_file is, and the counters of _send_and_wait
    runs,       \* calls of send_file so far
    toRcv,      \* datagrams sent to the receiver, each with the address of
                \* the socket it came from
    toSnd,      \* datagrams sent by the receiver, each with the address it
                \* was sent to
    sessions,   \* RdtReceiver.sessions
    fs,         \* the output directory of the receiver
    now,        \* int(time.time())
    crashes,    \* receiver restarts so far
    rcvIn,      \* the datagram the receiver handled in this step, if it did,
                \* with the sessions and the disk it found
    rcvOut,     \* the packets the receiver sent in this step
    rcvLog,     \* the effects of the receiver in this step, in order
    codecIn,    \* the buffer handed to Packet.decode, if any, with the
                \* packet it was encoded from, if it was
    codecOut,   \* what Packet.decode returned for that buffer
    emu,        \* NetworkSimulator.client_map, and the datagram of each
                \* client on its way through the emulator and the target
    emuOut,     \* the datagrams the emulator sent to clients in this step
    sndLog,     \* what the sender did in this run, in order: the packets it
                \* sent and the responses _send_and_wait returned
    sndStep,    \* the branch of _send_and_wait the sender took in this step,
                \* if it took one, with the sender as it was before
    fwd,        \* the threads of the emulator in forward_packet and
                \* send_packet, its timers, its counters, and the calls of
                \* forward_packet and sendto so far
    serving     \* is the receiver in the loop of serve_forever?

vars == <<src, chunk_size, snd, runs, toRcv, toSnd, sessions, fs, now, crashes,
          rcvIn, rcvOut, rcvLog, codecIn, codecOut, emu, emuOut, sndLog, sndStep, fwd,
          serving>>

\* resends of one packet the model follows
MaxSends == max_retries + 2

NoSessions == [f \in {} |-> <<>>]

\* the two senders behind the emulator, by the address of their socket
Clients == {1, 2}

NoDatagram == [data |-> <<>>, atEmu |-> 0, atTarget |-> 0, back |-> <<>>]

\* NetworkSimulator.__init__: no client is known, nothing is in flight
IdleEmulator ==
    [client_map |-> [f \in {} |-> 0], flight |-> [c \in Clients |-> NoDatagram]]

\* calls of forward_packet followed
MaxCalls == 2

\* timer threads alive at a time followed
MaxTimers == 2

\* the threads that call forward_packet, named as the timer threads are, by
\* a pair: the thread of handle_client_to_target and the thread of
\* handle_target_to_client
CLIENT_THREAD == <<0, 1>>
TARGET_THREAD == <<0, 2>>
Loops == {CLIENT_THREAD, TARGET_THREAD}

\* the threads of threading.Timer: one for each copy of each call
Timers == (1..MaxCalls) \X {1, 2}

\* NetworkSimulator.__init__ and start: both loops wait in recvfrom, no
\* timer is set, the counters are 0
IdleForwarder ==
    [thr |-> [x \in Loops \cup Timers |->
                 [pc |-> IF x \in Loops THEN "recvfrom" ELSE "unset",
                  call |-> 0, copy |-> 0, tmp |-> 0]],
     calls |-> <<>>,
     packets_forwarded |-> 0, packets_dropped |-> 0, packets_delayed |-> 0]

IdleSender ==
    [state |-> "IDLE", resume |-> TRUE, chunk_id |-> 0, retries |-> 0,
     sends |-> 0, fin_acked |-> FALSE]

Init ==
    /\ src \in {SourceFile(n) : n \in 0..MaxFileSize}
    /\ chunk_size \in 1..MaxChunkSize
    /\ snd = IdleSender
    /\ runs = 0
    /\ toRcv = {}
    /\ toSnd = {}
    /\ sessions = NoSessions
    /\ fs = EmptyDisk
    /\ now = 0
    /\ crashes = 0
    /\ rcvIn = <<>>
    /\ rcvOut = <<>>
    /\ rcvLog = <<>>
    /\ codecIn = <<>>
    /\ codecOut = <<>>
    /\ emu = IdleEmulator
    /\ emuOut = {}
    /\ sndLog = <<>>
    /\ sndStep = <<>>
    /\ fwd = IdleForwarder
    /\ serving = TRUE

\* one datagram damaged on the wire so that its CRC no longer matches
Damaged(d) == [d EXCEPT !.hdr[11] = (@ + 1) % 65521]

\* a datagram on the wire, with the address of the sender's socket: every
\* RdtSender has a socket of its own, named here by the number of its run
OnWire(data, addr) == [data |-> data, addr |-> addr]

\* what the network can hand over: a datagram sent, intact or damaged
Arrivals(net) == net \cup {OnWire(Damaged(m.data), m.addr) : m \in net}

ReceiverQuiet ==
    /\ rcvIn' = <<>> /\ rcvOut' = <<>> /\ rcvLog' = <<>>
    /\ UNCHANGED <<codecIn, codecOut, emu, emuOut, sndLog, sndStep, fwd>>

(* ------------------------------ sender ------------------------------- *)
\* send_file is called: the SYN goes out
SendFile(resume) ==
    /\ snd.state \in {"IDLE", "DONE", "ABORTED"}
    /\ runs < MaxRuns
    /\ runs' = runs + 1
    /\ snd' = [IdleSender EXCEPT !.state = "HANDSHAKING", !.resume = resume,
                                 !.sends = 1]
    /\ toRcv' = toRcv \cup {OnWire(encode(SynPacket(src, chunk_size, resume)),
                                    runs + 1)}
    /\ ReceiverQuiet
    /\ UNCHANGED <<src, chunk_size, toSnd, sessions, fs, now, crashes, serving>>

\* the sender process is killed
KillSender ==
    /\ Waiting(snd)
    /\ snd' = IdleSender
    /\ ReceiverQuiet
    /\ UNCHANGED <<src, chunk_size, runs, toRcv, toSnd, sessions, fs, now, crashes,
                   serving>>

\* recvfrom times out
Timeout ==
    /\ Waiting(snd)
    /\ snd' = AfterTimeout(snd)
    /\ toRcv' = IF Waiting(snd')
                THEN toRcv \cup {OnWire(encode(PendingPacket(snd', src, chunk_size)),
                                        runs)}
                ELSE toRcv
    /\ ReceiverQuiet
    /\ UNCHANGED <<src, chunk_size, runs, toSnd, sessions, fs, now, crashes, serving>>

\* recvfrom returns a datagram that was sent to the socket of this run
SenderReceive(m) ==
    /\ Waiting(snd)
    /\ m.addr = runs
    /\ LET dec == decode(m.data)
       IN  IF IsExpectedResponse(snd, dec.pkt, dec.ok)
           THEN snd' = AfterResponse(snd, dec.pkt, src, chunk_size)
           ELSE /\ snd.sends < MaxSends
                /\ snd' = AfterDiscard(snd)
    /\ toRcv' = IF Waiting(snd')
                THEN toRcv \cup {OnWire(encode(PendingPacket(snd', src, chunk_size)),
                                        runs)}
                ELSE toRcv
    /\ ReceiverQuiet
    /\ UNCHANGED <<src, chunk_size, runs, toSnd, sessions, fs, now, crashes, serving>>

(* ----------------------------- receiver ------------------------------ *)
RcvState == [sessions |-> sessions, fs |-> fs, out |-> <<>>, log |-> <<>>]

\* the receiver handles one datagram, start to end; its replies go onto the
\* wire or, when the handling is on record, are recorded with its effects
Handle(m, onRecord) ==
    LET dec == decode(m.data)
        steps == ServeOne(RcvState, m.data, now)
        R == Last(steps, RcvState)
    IN  /\ serving
        /\ serving' = ~HasRaised(R)
        /\ sessions' = R.sessions
        /\ fs' = R.fs
        /\ IF onRecord
           THEN /\ rcvIn' = <<[pkt |-> IF dec.ok THEN dec.pkt
                                       ELSE Packet(ERR, 0, 0, 0, 0, 0, <<>>),
                               ok |-> dec.ok, data |-> m.data,
                               sessions |-> sessions, fs |-> fs]>>
                /\ rcvOut' = R.out
                /\ rcvLog' = R.log
                /\ UNCHANGED toSnd
           ELSE /\ toSnd' = toSnd \cup {OnWire(encode(R.out[i]), m.addr) :
                                          i \in 1..Len(R.out)}
                /\ ReceiverQuiet
        /\ UNCHANGED <<src, chunk_size, snd, runs, toRcv, now, crashes,
                       codecIn, codecOut, emu, emuOut, sndLog, sndStep, fwd>>

Receive(m) == Handle(m, FALSE)

ReceiveLogged(data) == Handle(OnWire(data, 0), TRUE)

\* the receiver process stops after some but not all effects of handling a
\* datagram and is started again: its memory is lost, its disk is kept
CrashIn(m) ==
    LET steps == ServeOne(RcvState, m.data, now)
    IN  /\ crashes < MaxCrashes
        /\ serving
        /\ serving' = TRUE
        /\ \E k \in 1..(Len(steps) - 1) :
              /\ fs' = steps[k].fs
              /\ toSnd' = toSnd \cup {OnWire(encode(steps[k].out[i]), m.addr) :
                                        i \in 1..Len(steps[k].out)}
        /\ crashes' = crashes + 1
        /\ sessions' = NoSessions
        /\ ReceiverQuiet
        /\ UNCHANGED <<src, chunk_size, snd, runs, toRcv, now>>

\* the receiver process stops between two datagrams and is started again
CrashIdle ==
    /\ crashes < MaxCrashes
    /\ crashes' = crashes + 1
    /\ sessions' = NoSessions
    /\ serving' = TRUE
    /\ ReceiverQuiet
    /\ UNCHANGED <<src, chunk_size, snd, runs, toRcv, toSnd, fs, now>>

\* a second passes
Tick ==
    /\ now < MaxTime
    /\ now' = now + 1
    /\ ReceiverQuiet
    /\ UNCHANGED <<src, chunk_size, snd, runs, toRcv, toSnd, sessions, fs, crashes,
                   serving>>

(* ---------------------------------------------------------------------- *)
(* Spec: one call of send_file against a receiver that starts with an     *)
(* empty output directory, over a network that loses, duplicates,         *)
(* reorders and damages datagrams in both directions                      *)
(* ---------------------------------------------------------------------- *)
Start(resume) == runs = 0 /\ SendFile(resume)

Next ==
    \/ \E resume \in BOOLEAN : Start(resume)
    \/ Timeout
    \/ \E m \in Arrivals(toSnd) : SenderReceive(m)
    \/ \E m \in Arrivals(toRcv) : Receive(m)
    \/ Tick

Spec == Init /\ [][Next]_vars

\* the datagram the sender is waiting on reaches the receiver intact
DeliverPending ==
    /\ Waiting(snd)
    /\ OnWire(encode(PendingPacket(snd, src, chunk_size)), runs) \in toRcv
    /\ Receive(OnWire(encode(PendingPacket(snd, src, chunk_size)), runs))

\* the response the sender is waiting for reaches it intact
DeliverResponse ==
    \E m \in toSnd :
        /\ Waiting(snd)
        /\ IsExpectedResponse(snd, decode(m.data).pkt, decode(m.data).ok)
        /\ SenderReceive(m)

(* ---------------------------------------------------------------------- *)
(* LiveSpec: the same transfer on a network that in the end delivers what  *)
(* keeps being sent: no exchange sees more than max_retries timeouts in a  *)
(* row, the pending datagram and its response get through                  *)
(* ---------------------------------------------------------------------- *)
PatientTimeout == snd.retries < max_retries /\ Timeout

LiveNext ==
    \/ \E resume \in BOOLEAN : Start(resume)
    \/ PatientTimeout
    \/ \E m \in Arrivals(toSnd) : SenderReceive(m)
    \/ \E m \in Arrivals(toRcv) : Receive(m)

LiveSpec ==
    /\ Init /\ [][LiveNext]_vars
    /\ WF_vars(\E resume \in BOOLEAN : Start(resume))
    /\ WF_vars(DeliverPending)
    /\ WF_vars(DeliverResponse)

(* ---------------------------------------------------------------------- *)
(* SpecResume: transfers that are interrupted and taken up again.  The     *)
(* sender may be killed and the receiver may stop at any point of a run    *)
(* that is not the last one; a sender that is not running while the file   *)
(* has not arrived is started again with resume=true.                      *)
(* ---------------------------------------------------------------------- *)
Delivered ==
    /\ PathExists(fs, FinalPath(SRC_NAME))
    /\ fs[FinalPath(SRC_NAME)] = src

Interrupt ==
    /\ runs < MaxRuns
    /\ \/ KillSender
       \/ \E m \in toRcv : CrashIn(m)
       \/ CrashIdle

Restart == runs > 0 /\ ~Delivered /\ SendFile(TRUE)

ResumeNext ==
    \/ \E resume \in BOOLEAN : Start(resume)
    \/ Restart
    \/ Interrupt
    \/ \E m \in toSnd : SenderReceive(m)
    \/ \E m \in toRcv : Receive(m)

SpecResume ==
    /\ Init /\ [][ResumeNext]_vars
    /\ WF_vars(\E resume \in BOOLEAN : Start(resume))
    /\ WF_vars(Restart)
    /\ WF_vars(runs < MaxRuns /\ KillSender)
    /\ WF_vars(DeliverPending)
    /\ WF_vars(DeliverResponse)

(* ---------------------------------------------------------------------- *)
(* SpecRcv: the receiver alone, fed any datagram of a transfer of src in   *)
(* any order: SYNs whose metadata declare the right hash, the hash of      *)
(* other bytes, an empty one or none; DATA of any chunk, with seq equal to *)
(* chunk_id or not, with or without EOF; FIN; a damaged datagram.  Each    *)
(* step records the datagram handled, the state it found, the replies and  *)
(* the effects.  The transfers are those of a file of the largest size in  *)
(* chunks of one byte (every chunk full) and in chunks of the largest      *)
(* size (one full chunk), and of a file one byte shorter in chunks of the  *)
(* largest size (a short last chunk).                                      *)
(* ---------------------------------------------------------------------- *)
\* bytes that are not the source
FOREIGN == <<9>>

SrcFid == file_id_from_sha256(sha256_bytes(src))

\* the metadata of a SYN for src, with the given sha256 field (none: <<>>)
SynMeta(field) ==
    [k \in {K_filename, K_filesize, K_chunk_size} \cup (IF field = <<>> THEN {} ELSE {K_sha256}) |->
        CASE k = K_filename -> SRC_NAME
          [] k = K_filesize -> <<Len(src)>>
          [] k = K_chunk_size -> <<chunk_size>>
          [] OTHER -> field[1]]

AnySyn ==
    {Packet(SYN, flags, SrcFid, 0, 0, 0, json_dumps(SynMeta(<<sha>>))) :
        flags \in {FLAG_META_JSON, BitOr(FLAG_META_JSON, FLAG_RESUME)},
        sha \in {sha256_bytes(src), sha256_bytes(FOREIGN)}}
    \cup {Packet(SYN, BitOr(FLAG_META_JSON, FLAG_RESUME), SrcFid, 0, 0, 0,
                 json_dumps(SynMeta(<< <<>> >>))),
          Packet(SYN, FLAG_META_JSON, SrcFid, 0, 0, 0, json_dumps(SynMeta(<<>>))),
          Packet(SYN, FLAG_RESUME, SrcFid, 0, 0, 0, <<>>)}

AnyData ==
    UNION {{Packet(DATA, flags, SrcFid, seq, 0, chunk_id,
                   DataPacket(src, chunk_size, chunk_id).payload) :
                flags \in {0, FLAG_EOF},
                seq \in {chunk_id, chunk_id + 1}} :
           chunk_id \in 0..TotalChunks(Len(src), chunk_size)}

AnyDatagram ==
    LET sound == {encode(p) : p \in AnySyn \cup AnyData \cup {FinPacket(src, chunk_size)}}
    IN  sound \cup {Damaged(encode(FinPacket(src, chunk_size)))}

RcvInit ==
    /\ Init
    /\ \/ Len(src) = MaxFileSize /\ chunk_size \in {1, MaxChunkSize}
       \/ Len(src) = MaxFileSize - 1 /\ chunk_size = MaxChunkSize

RcvNext == \E data \in AnyDatagram : ReceiveLogged(data)

SpecRcv == RcvInit /\ [][RcvNext]_vars

(* ---------------------------------------------------------------------- *)
(* What a step of SpecRcv shows                                           *)
(* ---------------------------------------------------------------------- *)
Handled == rcvIn # <<>>

\* the packet the receiver has just handled
InPkt == rcvIn[1].pkt

\* a DATA packet of a session the receiver knew has just been handled
KnownData ==
    /\ Handled
    /\ rcvIn[1].ok
    /\ InPkt.ptype = DATA
    /\ InPkt.file_id \in DOMAIN rcvIn[1].sessions

\* the session of that packet, as the handler found it
FoundSession == rcvIn[1].sessions[InPkt.file_id]

\* the bytes of .part, as the handler found them
FoundPart ==
    IF PathExists(rcvIn[1].fs, PartPath(FoundSession.filename))
    THEN rcvIn[1].fs[PartPath(FoundSession.filename)]
    ELSE <<>>

Did(effect) == \E i \in 1..Len(rcvLog) : rcvLog[i] = effect

\* the handler has just renamed .part to the canonical name
Installed == Handled /\ Did("rename_part_final")

(* ---------------------------------------------------------------------- *)
(* C1..C10                                                                *)
(* ---------------------------------------------------------------------- *)

\* C1 (prefix invariant): whatever the network, the sender restarts and the
\* receiver restarts did, the bytes of <filename>.part are the first
\* size(.part) bytes of the file the sender sends.
C1_PrefixInvariant ==
    PathExists(fs, PartPath(SRC_NAME)) => IsPrefix(fs[PartPath(SRC_NAME)], src)

\* C2, as stated: a handler that renamed .part to <filename> did so with
\* size >= filesize and with the SHA-256 of the file equal to the sha256 of
\* the session, whatever the SYN metadata declared (an empty or missing
\* sha256 included).
C2_RenameOnlyOnHashMatch ==
    Installed =>
        LET s == sessions[InPkt.file_id]
            final == fs[FinalPath(s.filename)]
        IN  /\ Len(final) >= s.filesize
            /\ sha256_bytes(final) = s.sha256

\* C2, amended: a handler that renamed .part to <filename> did so with
\* size >= filesize and, when the sha256 of the session is not empty, with
\* the SHA-256 of the file equal to it; a session whose SYN declared an empty
\* or no sha256 is installed on its size alone.
C2_RenameOnlyOnDeclaredHashMatch ==
    Installed =>
        LET s == sessions[InPkt.file_id]
            final == fs[FinalPath(s.filename)]
        IN  /\ Len(final) >= s.filesize
            /\ (s.sha256 # <<>> => sha256_bytes(final) = s.sha256)

\* C2, the case: a file has just been installed for a session that declared
\* no hash
C2_InstalledWithoutHash ==
    /\ Installed
    /\ sessions[InPkt.file_id].sha256 = <<>>
    /\ PathExists(fs, FinalPath(SRC_NAME))

\* C3 (resume correctness): a sender that was started again with resume=true
\* after an interruption and has run to its end (FIN acknowledged) has left
\* <filename> on the receiver, byte-identical to the source.
C3_ResumeCorrectness ==
    (runs > 1 /\ snd.resume /\ snd.state = "DONE" /\ src # <<>>) => Delivered

\* C4 (sender completion implies delivery): once the sender has a matching
\* ACK for every chunk from the next_chunk of the handshake to the last one,
\* the receiver holds the bytes of the source, all and in order (in .part, or
\* under <filename> once finalized).
C4_CompletionImpliesDelivery ==
    (snd.state \in {"TERMINATING", "DONE"} /\ src # <<>>) =>
        \/ Delivered
        \/ /\ PathExists(fs, PartPath(SRC_NAME))
           /\ fs[PartPath(SRC_NAME)] = src

\* C5 (liveness): on a network that in the end delivers what keeps being
\* sent, a sender started against a receiver with no prior state ends DONE
\* with <filename> on the receiver, equal to the source.  (On this network
\* no exchange is given up, and a sender that is DONE sends nothing more: a
\* run that is DONE without the file is a run that never delivers it.)
C5_Liveness == snd.state = "DONE" => Delivered

\* C6 (idempotent re-delivery): handling a DATA packet of a known session
\* with chunk_id < next_chunk leaves the sessions (next_chunk) and the whole
\* disk (.part, meta, final) as they were; the one effect is one ACK.
C6_IdempotentRedelivery ==
    (KnownData /\ InPkt.chunk_id < FoundSession.next_chunk) =>
        /\ sessions = rcvIn[1].sessions
        /\ fs = rcvIn[1].fs
        /\ rcvLog = <<"sendto">>
        /\ Len(rcvOut) = 1
        /\ rcvOut[1].ptype = ACK

\* C6, the case: with two chunks written and .part on disk, chunk 0 has
\* just been handled again
C6_EarlierChunkAgain ==
    /\ KnownData
    /\ FoundSession.next_chunk = 2
    /\ InPkt.chunk_id = 0
    /\ InPkt.seq = 0
    /\ FoundPart # <<>>
    /\ rcvOut # <<>>

\* C7 (accept rule): handling a DATA packet of a known session with
\* chunk_id = next_chunk and seq = next_chunk appends the payload to .part,
\* saves the meta file with next_chunk + 1 and then sends one ACK with
\* ack = chunk_id, in this order; next_chunk of the session is one more; with
\* EOF set finalization follows (the file is installed when it is complete
\* and passes the hash test), and without EOF nothing follows.
C7_AcceptRule ==
    (KnownData /\ InPkt.chunk_id = FoundSession.next_chunk
               /\ InPkt.seq = FoundSession.next_chunk) =>
        LET s == FoundSession
            fid == InPkt.file_id
            written == FoundPart \o InPkt.payload
            complete == /\ Len(written) >= s.filesize
                        /\ (s.sha256 = <<>> \/ sha256_bytes(written) = s.sha256)
            n == Len(rcvLog)
        IN  /\ n >= 3
            /\ SubSeq(rcvLog, 1, 3) = <<"append", "save_json", "sendto">>
            /\ sessions[fid].next_chunk = s.next_chunk + 1
            /\ Len(rcvOut) = 1
            /\ rcvOut[1].ptype = ACK
            /\ rcvOut[1].ack = InPkt.chunk_id
            /\ IF HasFlag(InPkt.flags, FLAG_EOF) /\ complete
               THEN /\ rcvLog[n - 1] = "rename_part_final"
                    /\ rcvLog[n] = "unlink_meta"
                    /\ fs[FinalPath(s.filename)] = written
                    /\ ~PathExists(fs, PartPath(s.filename))
                    /\ ~PathExists(fs, MetaPath(s.filename))
               ELSE /\ n = 3
                    /\ fs[PartPath(s.filename)] = written
                    /\ load_json(fs, MetaPath(s.filename), EmptyDict)
                           = SessionDict(sessions[fid])
                    /\ \A q \in DOMAIN rcvIn[1].fs :
                          q \notin {PartPath(s.filename), MetaPath(s.filename)}
                              => (q \in DOMAIN fs /\ fs[q] = rcvIn[1].fs[q])

\* C7, the case: the second chunk of a file has just been accepted, without
\* EOF, onto a .part that held the first
C7_SecondChunkAccepted ==
    /\ KnownData
    /\ FoundSession.next_chunk = 1
    /\ InPkt.chunk_id = 1
    /\ InPkt.seq = 1
    /\ ~HasFlag(InPkt.flags, FLAG_EOF)
    /\ FoundPart # <<>>
    /\ InPkt.payload # <<>>
    /\ rcvLog = <<"append", "save_json", "sendto">>

\* C8 (reject rule): handling a DATA packet of a known session with
\* chunk_id # next_chunk or seq # next_chunk writes nothing and sends one
\* ACK with ack = max(0, next_chunk - 1).
C8_RejectRule ==
    (KnownData /\ (\/ InPkt.chunk_id # FoundSession.next_chunk
                   \/ InPkt.seq # FoundSession.next_chunk)) =>
        /\ fs = rcvIn[1].fs
        /\ rcvLog = <<"sendto">>
        /\ Len(rcvOut) = 1
        /\ rcvOut[1].ptype = ACK
        /\ rcvOut[1].ack = Max(0, FoundSession.next_chunk - 1)

\* C8, the case: the expected chunk has just been rejected for its seq, with
\* one chunk written before
C8_RejectedForSeq ==
    /\ KnownData
    /\ FoundSession.next_chunk = 1
    /\ InPkt.chunk_id = 1
    /\ InPkt.seq = 2
    /\ rcvOut # <<>>
    /\ rcvOut[1].ack = 0

\* C9 (retry bound): in one exchange the same packet is put on the wire at
\* most max_retries + 1 times.
C9_RetryBound == snd.sends <= max_retries + 1

\* C10 (discard without resend): while the sender waits in an exchange, the
\* pending packet goes onto the wire again only with a timeout (which counts
\* a retry); a response that is damaged or not the one waited for puts
\* nothing on the wire.
C10_DiscardWithoutResend ==
    [][(/\ Waiting(snd)
        /\ snd'.state = snd.state
        /\ snd'.chunk_id = snd.chunk_id
        /\ snd'.sends > snd.sends) => snd'.retries > snd.retries]_vars

(* ---------------------------------------------------------------------- *)
(* C11..C20                                                               *)
(* ---------------------------------------------------------------------- *)

\* the DATA packets the sender has put on the wire
DataSent == {m \in toRcv : m.data.hdr[3] = DATA}

\* C11 (zero-byte file): once the sender of a file of size 0 is through with
\* the data (it sends FIN or is done), a DATA packet with EOF and an empty
\* payload is on the wire, and when it is done with the FIN acknowledged an
\* empty <filename> exists in the output directory.
C11_ZeroByteFile ==
    (src = <<>> /\ snd.state \in {"TERMINATING", "DONE"}) =>
        /\ \E m \in DataSent :
              HasFlag(decode(m.data).pkt.flags, FLAG_EOF) /\ m.data.body = <<>>
        /\ (snd.fin_acked =>
               /\ PathExists(fs, FinalPath(SRC_NAME))
               /\ fs[FinalPath(SRC_NAME)] = <<>>)

\* a SYN with META-JSON has just been handled
MetaSyn ==
    /\ Handled
    /\ rcvIn[1].ok
    /\ InPkt.ptype = SYN
    /\ HasFlag(InPkt.flags, FLAG_META_JSON)

\* C12 (SYN reply): the reply to a SYN with META-JSON is one SYN-ACK; with
\* RESUME set it carries the next_chunk of the session as loaded or
\* initialised and flags RESUME-OK|META-JSON, without RESUME it carries
\* next_chunk = 0 and flags META-JSON, whatever the session holds.
C12_SynReply ==
    MetaSyn =>
        LET resume == HasFlag(InPkt.flags, FLAG_RESUME)
            s == sessions[InPkt.file_id]
        IN  /\ Len(rcvOut) = 1
            /\ rcvOut[1].ptype = SYN_ACK
            /\ rcvOut[1].file_id = InPkt.file_id
            /\ rcvOut[1].flags = (IF resume THEN FLAG_RESUME_OK + FLAG_META_JSON
                                  ELSE FLAG_META_JSON)
            /\ json_loads(rcvOut[1].payload)[K_next_chunk] =
                   (IF resume THEN <<s.next_chunk>> ELSE <<0>>)
            /\ rcvLog[Len(rcvLog)] = "sendto"

\* C12, the case: a SYN without RESUME has just been answered with
\* next_chunk = 0 while the session it matched has chunks on disk
C12_NewTransferOverPartial ==
    /\ MetaSyn
    /\ ~HasFlag(InPkt.flags, FLAG_RESUME)
    /\ sessions[InPkt.file_id].next_chunk > 0
    /\ PathExists(fs, PartPath(SRC_NAME))
    /\ ParseNextChunk(rcvOut[1].payload) = 0

\* C13 (session size invariant): between two handlings, every session whose
\* .part exists has next_chunk * chunk_size <= size(.part) <= filesize, with
\* size(.part) = next_chunk * chunk_size unless the last, shorter chunk has
\* been written (then size(.part) = filesize, and next_chunk may have gone
\* past the last chunk).
C13_SessionSizeInvariant ==
    \A f \in DOMAIN sessions :
        LET s == sessions[f]
            part == PartPath(s.filename)
            size == Len(fs[part])
            lastWritten ==
                /\ size = s.filesize
                /\ s.next_chunk = TotalChunks(s.filesize, s.chunk_size)
        IN  PathExists(fs, part) =>
                /\ size <= s.filesize
                /\ (s.next_chunk * s.chunk_size <= size \/ lastWritten)
                /\ (size = s.next_chunk * s.chunk_size \/ size = s.filesize)

(* ---------------------------------------------------------------------- *)
(* SpecCodec: Packet.encode and Packet.decode alone.  A well-formed packet *)
(* is encoded; the buffer is decoded as it is, or after the network or a   *)
(* peer built differently has changed it.                                  *)
(* ---------------------------------------------------------------------- *)
\* the largest payload followed, in bytes
MaxPayload == 2

\* the largest file_id, seq, ack and chunk_id followed
MaxField == 1

RECURSIVE BytesUpTo(_)
BytesUpTo(n) ==
    IF n = 0 THEN {<<>>}
    ELSE BytesUpTo(n - 1) \cup
         {Append(b, x) : b \in {c \in BytesUpTo(n - 1) : Len(c) = n - 1}, x \in {0, 255}}

\* packets whose fields fit the header: every type, no flag or every flag
WellFormed ==
    {Packet(ptype, flags, file_id, seq, ack, chunk_id, payload) :
        ptype \in SYN..ERR, flags \in {0, 255}, file_id \in {0, MaxField},
        seq \in {0, MaxField}, ack \in {0, MaxField}, chunk_id \in {0, MaxField},
        payload \in BytesUpTo(MaxPayload)}

\* the checksum field again, over the header and the body as they are now
Resealed(d) ==
    [d EXCEPT !.hdr[11] = crc32([d.hdr EXCEPT ![11] = 0] \o d.body)]

\* buffers that differ from d: cut inside the header, a static field
\* changed, a payload byte changed, the checksum field changed, the last
\* payload byte lost, a byte added behind the payload, and a buffer that
\* declares one payload byte more than it carries, its checksum computed
\* over what it carries
Tampered(d) ==
    {[hdr |-> SubSeq(d.hdr, 1, k), body |-> <<>>] : k \in {0, Len(d.hdr) - 1}}
    \cup {[d EXCEPT !.hdr[i] = @ + 1] : i \in {1, 2, 5, 11}}
    \cup {[d EXCEPT !.body[1] = 255 - @] : i \in {1} \cap DOMAIN d.body}
    \cup {[d EXCEPT !.body = SubSeq(@, 1, Len(@) - 1)] : i \in {1} \cap DOMAIN d.body}
    \cup {[d EXCEPT !.body = Append(@, 0)]}
    \cup {Resealed([d EXCEPT !.hdr[10] = @ + 1])}

CodecInit == Init /\ src = <<>> /\ chunk_size = 1

CodecQuiet ==
    UNCHANGED <<src, chunk_size, snd, runs, toRcv, toSnd, sessions, fs, now,
                crashes, rcvIn, rcvOut, rcvLog, emu, emuOut, sndLog, sndStep, fwd,
                serving>>

\* p.encode()
CodecEncode(p) ==
    /\ codecIn = <<>>
    /\ codecIn' = <<[of |-> <<p>>, buf |-> encode(p)]>>
    /\ codecOut' = <<>>
    /\ CodecQuiet

\* the buffer is changed before it is decoded
CodecTamper ==
    /\ codecIn # <<>> /\ codecOut = <<>>
    /\ codecIn[1].of # <<>>
    /\ \E b \in Tampered(codecIn[1].buf) :
          codecIn' = <<[of |-> <<>>, buf |-> b]>>
    /\ codecOut' = <<>>
    /\ CodecQuiet

\* Packet.decode(buffer)
CodecDecode ==
    /\ codecIn # <<>> /\ codecOut = <<>>
    /\ codecOut' = <<decode(codecIn[1].buf)>>
    /\ UNCHANGED codecIn
    /\ CodecQuiet

CodecNext ==
    \/ \E p \in WellFormed : CodecEncode(p)
    \/ CodecTamper
    \/ CodecDecode

SpecCodec == CodecInit /\ [][CodecNext]_vars

\* a buffer was decoded
Decoded == codecIn # <<>> /\ codecOut # <<>>

\* C14: decoding the encoding of a well-formed packet gives back the packet,
\* field by field, and ok = true
C14_RoundTrip ==
    (Decoded /\ codecIn[1].of # <<>>) =>
        /\ codecOut[1].ok
        /\ codecOut[1].pkt = codecIn[1].of[1]

\* C14 happens: an ERR packet with every flag, the largest fields, ack
\* different from seq and a payload of the largest length went through
C14_FullPacketRoundTrip ==
    /\ Decoded /\ codecIn[1].of # <<>>
    /\ codecIn[1].of[1].ptype = ERR /\ codecIn[1].of[1].flags = 255
    /\ codecIn[1].of[1].file_id = MaxField
    /\ codecIn[1].of[1].seq = MaxField /\ codecIn[1].of[1].ack = 0
    /\ Len(codecIn[1].of[1].payload) = MaxPayload
    /\ codecOut[1].pkt.payload = codecIn[1].of[1].payload

\* the checksum field of a whole header agrees with the CRC32 of the header
\* with that field zeroed followed by the payload_len bytes behind it
ChecksumAgrees(d) ==
    d.hdr[11] = crc32([d.hdr EXCEPT ![11] = 0] \o Slice(d.body, 0, d.hdr[10]))

\* C15: decode returns ok = false for a buffer shorter than the header, with
\* a wrong magic, version or hlen, with a payload_len larger than the bytes
\* behind the header, or with a checksum field that disagrees with the
\* CRC32; and ok = true implies that the checksum agrees
C15_Rejection ==
    Decoded =>
        LET d == codecIn[1].buf
            ok == codecOut[1].ok
        IN  IF Len(d.hdr) < 11 THEN ~ok
            ELSE /\ (d.hdr[1] # MAGIC \/ d.hdr[2] # VERSION \/ d.hdr[5] # HEADER_LEN) => ~ok
                 /\ d.hdr[10] > Len(d.body) => ~ok
                 /\ ~ChecksumAgrees(d) => ~ok
                 /\ ok => ChecksumAgrees(d)

\* a FIN that decoded cleanly has just been handled
CleanFin == Handled /\ rcvIn[1].ok /\ InPkt.ptype = FIN

\* the handler found the session of the packet
SessionKnown == InPkt.file_id \in DOMAIN rcvIn[1].sessions

\* the handler found a .part of at least filesize bytes whose SHA-256 is not
\* the non-empty sha256 of the session
FoundBadPart ==
    /\ SessionKnown
    /\ PathExists(rcvIn[1].fs, PartPath(FoundSession.filename))
    /\ Len(FoundPart) >= FoundSession.filesize
    /\ FoundSession.sha256 # <<>>
    /\ sha256_bytes(FoundPart) # FoundSession.sha256

\* C16: every cleanly decoded FIN is answered by exactly one FIN-ACK with
\* the file_id of the FIN and ack = seq of the FIN, and by nothing else,
\* whether the session is unknown, the file is installed, the file is
\* incomplete or the hash test fails
C16_FinAck ==
    CleanFin =>
        /\ Len(rcvOut) = 1
        /\ rcvOut[1].ptype = FIN_ACK
        /\ rcvOut[1].file_id = InPkt.file_id
        /\ rcvOut[1].ack = InPkt.seq
        /\ Cardinality({i \in 1..Len(rcvLog) : rcvLog[i] = "sendto"}) = 1
        /\ rcvLog[Len(rcvLog)] = "sendto"

\* C16, the case: a FIN for a session the receiver does not know has just
\* been answered
C16_UnknownSessionFin ==
    /\ CleanFin /\ ~SessionKnown
    /\ InPkt.seq > 0
    /\ rcvOut # <<>>

\* C17: a finalization attempt that finds the SHA-256 of .part different
\* from the hash the session declared changes nothing: on a FIN the disk is
\* as it was (.part, the meta file, an existing <filename> and everything
\* else), nothing is renamed, created or deleted; on a DATA packet with EOF
\* whose payload completes such a .part the disk differs from the one found
\* only by the append and the saved meta file of the accept rule.  (A session
\* that declared no hash has no hash to differ from: it is the case of C2.)
C17_IntegrityFailure ==
    /\ (CleanFin /\ FoundBadPart) =>
           /\ fs = rcvIn[1].fs
           /\ rcvLog = <<"sendto">>
    /\ (KnownData /\ HasFlag(InPkt.flags, FLAG_EOF)
                  /\ InPkt.chunk_id = FoundSession.next_chunk
                  /\ InPkt.seq = FoundSession.next_chunk) =>
           LET s == FoundSession
               written == FoundPart \o InPkt.payload
           IN  (/\ Len(written) >= s.filesize
                /\ s.sha256 # <<>>
                /\ sha256_bytes(written) # s.sha256) =>
                   /\ rcvLog = <<"append", "save_json", "sendto">>
                   /\ fs[PartPath(s.filename)] = written
                   /\ PathExists(fs, MetaPath(s.filename))
                   /\ DOMAIN fs = DOMAIN rcvIn[1].fs
                                    \cup {PartPath(s.filename), MetaPath(s.filename)}
                   /\ \A q \in DOMAIN rcvIn[1].fs :
                         q \notin {PartPath(s.filename), MetaPath(s.filename)}
                             => fs[q] = rcvIn[1].fs[q]

\* C17, the case: a FIN has just found a complete .part with the wrong hash
\* next to a file installed before under the canonical name
C17_BadPartBesideInstalled ==
    /\ CleanFin /\ FoundBadPart
    /\ PathExists(rcvIn[1].fs, FinalPath(FoundSession.filename))
    /\ PathExists(rcvIn[1].fs, MetaPath(FoundSession.filename))
    /\ rcvOut # <<>>

(* ---------------------------------------------------------------------- *)
(* SpecEmu: two senders with different file_ids send through one           *)
(* NetworkSimulator to the receiver.  Each sender has one datagram under   *)
(* way (stop-and-wait): a SYN, the DATA packet or the FIN of its file, or  *)
(* a FIN damaged on its way.  The emulator records the client of the       *)
(* file_id, drops the datagram or forwards it once or twice; the receiver  *)
(* answers each copy to the emulator; the emulator routes every answer by  *)
(* the file_id it carries.  Each answer keeps the client whose datagram    *)
(* caused it.                                                              *)
(* ---------------------------------------------------------------------- *)
\* the file of a client: src for the first, other bytes for the second
ClientFile(c) == IF c = 1 THEN src ELSE FOREIGN

ClientDatagrams(c) ==
    LET sound == {encode(p) : p \in {SynPacket(ClientFile(c), chunk_size, TRUE),
                                     DataPacket(ClientFile(c), chunk_size, 0),
                                     FinPacket(ClientFile(c), chunk_size)}}
    IN  sound \cup {Damaged(encode(FinPacket(ClientFile(c), chunk_size)))}

\* extract_file_id_from_packet: <<file_id>>, or <<>> for None
extract_file_id_from_packet(d) ==
    IF Len(d.hdr) < 11 THEN <<>>
    ELSE IF d.hdr[1] # MAGIC THEN <<>>
    ELSE <<d.hdr[6]>>

\* handle_target_to_client: the clients a response is forwarded to
ResponseTargets(client_map, d) ==
    LET file_id == extract_file_id_from_packet(d)
        all == {client_map[f] : f \in DOMAIN client_map}
    IN  IF file_id # <<>> /\ file_id[1] \in DOMAIN client_map
        THEN {client_map[file_id[1]]}
        ELSE all

EmuInit == Init /\ Len(src) = 1 /\ chunk_size = 1

EmuQuiet ==
    UNCHANGED <<src, chunk_size, snd, runs, toRcv, toSnd, now, crashes,
                rcvIn, rcvOut, rcvLog, codecIn, codecOut, sndLog, sndStep, fwd,
                serving>>

\* a sender sends a datagram to the listen socket of the emulator
ClientSend(c, d) ==
    /\ emu.flight[c].atEmu = 0 /\ emu.flight[c].atTarget = 0
    /\ emu.flight[c].back = <<>>
    /\ emu' = [emu EXCEPT !.flight[c] = [data |-> <<d>>, atEmu |-> 1,
                                         atTarget |-> 0, back |-> <<>>]]
    /\ emuOut' = {}
    /\ UNCHANGED <<sessions, fs>>
    /\ EmuQuiet

\* handle_client_to_target for the datagram of client c: the client of its
\* file_id is recorded; forward_packet drops it, sends it, or sends it twice
EmuClientToTarget(c) ==
    LET d == emu.flight[c].data[1]
        file_id == extract_file_id_from_packet(d)
        known == DOMAIN emu.client_map \cup {file_id[i] : i \in DOMAIN file_id}
        client_map == [f \in known |->
                          IF file_id # <<>> /\ f = file_id[1] THEN c
                          ELSE emu.client_map[f]]
    IN  /\ emu.flight[c].atEmu = 1
        /\ \E copies \in 0..2 :
              emu' = [emu EXCEPT !.client_map = client_map,
                                 !.flight[c].atEmu = 0,
                                 !.flight[c].atTarget = copies]
        /\ emuOut' = {}
        /\ UNCHANGED <<sessions, fs>>
        /\ EmuQuiet

\* the receiver handles one copy of the datagram of client c and answers to
\* the target socket of the emulator
TargetServe(c) ==
    LET R == Last(ServeOne(RcvState, emu.flight[c].data[1], now), RcvState)
    IN  /\ emu.flight[c].atTarget > 0
        /\ sessions' = R.sessions
        /\ fs' = R.fs
        /\ emu' = [emu EXCEPT !.flight[c].atTarget = @ - 1,
                              !.flight[c].back = @ \o [i \in 1..Len(R.out) |-> encode(R.out[i])]]
        /\ emuOut' = {}
        /\ EmuQuiet

\* handle_target_to_client for the oldest answer to the datagram of client
\* c: forward_packet sends it to each client it is routed to, unless it
\* drops it (a second copy is the same datagram to the same client)
EmuTargetToClient(c) ==
    LET d == Head(emu.flight[c].back)
    IN  /\ emu.flight[c].back # <<>>
        /\ \E sent \in SUBSET ResponseTargets(emu.client_map, d) :
              emuOut' = {[to |-> a, data |-> d, cause |-> c] : a \in sent}
        /\ emu' = [emu EXCEPT !.flight[c].back = Tail(@)]
        /\ UNCHANGED <<sessions, fs>>
        /\ EmuQuiet

EmuNext ==
    \E c \in Clients :
        \/ \E d \in ClientDatagrams(c) : ClientSend(c, d)
        \/ EmuClientToTarget(c)
        \/ TargetServe(c)
        \/ EmuTargetToClient(c)

SpecEmu == EmuInit /\ [][EmuNext]_vars

\* C18: every datagram the emulator sends to a sender answers a datagram of
\* that sender: no SYN-ACK, ACK, FIN-ACK or ERR caused by one sender is
\* forwarded to the other
C18_NoCrossDelivery ==
    \A x \in emuOut : x.to = x.cause

(* ---------------------------------------------------------------------- *)
(* SpecBackup: the receiver alone, fed the SYN and the DATA packet of      *)
(* transfers of three different one-chunk files that all carry the same    *)
(* filename, one transfer after the other (a SYN comes when the transfer   *)
(* before it has left no meta file), while seconds pass or do not.         *)
(* ---------------------------------------------------------------------- *)
\* the contents sent under the one filename
Versions == {src, FOREIGN, FOREIGN \o FOREIGN}

SameNameSyn == {encode(SynPacket(file, chunk_size, FALSE)) : file \in Versions}

SameNameData == {encode(DataPacket(file, chunk_size, 0)) : file \in Versions}

BackupInit == Init /\ Len(src) = 1 /\ chunk_size = MaxChunkSize

BackupNext ==
    \/ /\ ~PathExists(fs, MetaPath(SRC_NAME))
       /\ \E data \in SameNameSyn : ReceiveLogged(data)
    \/ \E data \in SameNameData : ReceiveLogged(data)
    \/ Tick

SpecBackup == BackupInit /\ [][BackupNext]_vars

\* the backups of delivered files on a disk
Backups(disk) == {q \in DOMAIN disk : q[2] = "bak"}

\* C19: when a file is installed under a canonical name that exists, the
\* file that had the name is afterwards found unmodified under a backup
\* name, the new file has the canonical name, and the content of every
\* backup made before is still in the output directory: nothing delivered is
\* lost, however many transfers of the name follow one another
C19_BackupsKept ==
    (Installed /\ PathExists(rcvIn[1].fs, FinalPath(FoundSession.filename))) =>
        LET before == rcvIn[1].fs
            final == FinalPath(FoundSession.filename)
        IN  /\ fs[final] = FoundPart \o InPkt.payload
            /\ \E q \in Backups(fs) : q[1] = final[1] /\ fs[q] = before[final]
            /\ \A q \in Backups(before) :
                  \E r \in Backups(fs) \cup {final} : fs[r] = before[q]

(* ---------------------------------------------------------------------- *)
(* SpecNames: the receiver alone, fed the datagrams of transfers of src    *)
(* whose SYN metadata name the file by a leaf name, by a name with a       *)
(* directory in front, or by a name that starts with "..".                 *)
(* ---------------------------------------------------------------------- *)
\* "/" of a path
SEPARATOR == <<47>>

\* ".." of a path
PARENT == <<46, 46>>

\* the filenames of the SYN metadata: "f", "d/f", "../f"
AnyFilename ==
    {SRC_NAME, <<100>> \o SEPARATOR \o SRC_NAME, PARENT \o SEPARATOR \o SRC_NAME}

\* a SYN for src whose metadata give the file the name
NamedSyn(name) ==
    LET meta == [SynMeta(<<sha256_bytes(src)>>) EXCEPT ![K_filename] = name]
    IN  Packet(SYN, BitOr(FLAG_META_JSON, FLAG_RESUME), SrcFid, 0, 0, 0,
               json_dumps(meta))

NamedDatagrams ==
    {encode(p) : p \in {NamedSyn(name) : name \in AnyFilename}
                       \cup {DataPacket(src, chunk_size, c) :
                                c \in 0..(TotalChunks(Len(src), chunk_size) - 1)}
                       \cup {FinPacket(src, chunk_size)}}

NamesInit == Init /\ Len(src) = MaxFileSize /\ chunk_size = 1

NamesNext == \E data \in NamedDatagrams : ReceiveLogged(data)

SpecNames == NamesInit /\ [][NamesNext]_vars

\* out_dir / name lies directly inside out_dir: the name has no separator
\* and is not ".."
DirectlyInside(name) ==
    /\ name # PARENT
    /\ \A i \in DOMAIN name : <<name[i]>> # SEPARATOR

\* C20: whatever filename the SYN metadata give, every file the receiver
\* has created, appended to or renamed lies directly inside the output
\* directory
C20_LeafNameOnly ==
    \A q \in DOMAIN fs : DirectlyInside(q[1])

(* ---------------------------------------------------------------------- *)
(* C21..C30                                                               *)
(* ---------------------------------------------------------------------- *)

(* ---------------------------------------------------------------------- *)
(* SpecSnd: the sender alone, in one call of send_file, fed any response   *)
(* a receiver of src can send, in any order: a SYN-ACK with any next_chunk *)
(* or with no payload, an ACK of any chunk, a FIN-ACK, an ERR, a damaged   *)
(* datagram; or no response in time.  Every packet sent and every response *)
(* _send_and_wait returned is on record, in order.                         *)
(* ---------------------------------------------------------------------- *)
AnyResponse ==
    LET total_chunks == TotalChunks(Len(src), chunk_size)
        sound ==
            {Packet(SYN_ACK, BitOr(FLAG_RESUME_OK, FLAG_META_JSON), SrcFid, 0, 0, 0,
                    SynAckPayload(n, MSG_RESUME)) : n \in 0..total_chunks}
            \cup {Packet(SYN_ACK, 0, SrcFid, 0, 0, 0, <<>>)}
            \cup {Packet(ACK, 0, SrcFid, 0, n, n, <<>>) : n \in 0..Max(0, total_chunks - 1)}
            \cup {Packet(FIN_ACK, 0, SrcFid, 0, total_chunks, 0, <<>>),
                  Packet(ERR, 0, 0, 0, 0, 0, MSG_BAD_CHECKSUM)}
    IN  {encode(p) : p \in sound}
        \cup {Damaged(encode(Packet(FIN_ACK, 0, SrcFid, 0, total_chunks, 0, <<>>)))}

\* an entry of the record: a packet sent, a response returned
Sent(p) == [dir |-> "out", pkt |-> p]
Returned(p) == [dir |-> "in", pkt |-> p]

\* the record after the sender became s: when it waits, its packet went out
WithSend(log, s) ==
    IF Waiting(s) THEN Append(log, Sent(PendingPacket(s, src, chunk_size))) ELSE log

SndQuiet ==
    UNCHANGED <<src, chunk_size, runs, toRcv, toSnd, sessions, fs, now, crashes,
                rcvIn, rcvOut, rcvLog, codecIn, codecOut, emu, emuOut, fwd,
                serving>>

\* send_file is called: the SYN goes out
SndStart(resume) ==
    /\ snd.state = "IDLE"
    /\ snd' = [IdleSender EXCEPT !.state = "HANDSHAKING", !.resume = resume,
                                 !.sends = 1]
    /\ sndLog' = WithSend(sndLog, snd')
    /\ SndQuiet

\* recvfrom times out: the packet goes out again, or the call gives up
SndTimeout ==
    /\ Waiting(snd)
    /\ snd' = AfterTimeout(snd)
    /\ sndLog' = WithSend(sndLog, snd')
    /\ SndQuiet

\* recvfrom returns a datagram: the response waited for is returned and the
\* next packet goes out; any other is discarded and the packet goes out again
SndReceive(data) ==
    /\ Waiting(snd)
    /\ LET dec == decode(data)
       IN  IF IsExpectedResponse(snd, dec.pkt, dec.ok)
           THEN /\ snd' = AfterResponse(snd, dec.pkt, src, chunk_size)
                /\ sndLog' = WithSend(Append(sndLog, Returned(dec.pkt)), snd')
           ELSE /\ snd.sends < MaxSends
                /\ snd' = AfterDiscard(snd)
                /\ sndLog' = WithSend(sndLog, snd')
    /\ SndQuiet

SndNext ==
    /\ \/ \E resume \in BOOLEAN : SndStart(resume)
       \/ SndTimeout
       \/ \E data \in AnyResponse : SndReceive(data)
    /\ UNCHANGED sndStep

SpecSnd == Init /\ [][SndNext]_vars

\* the packets of a type sent so far, in the order they were sent
RECURSIVE SentOf(_, _)
SentOf(log, ptype) ==
    IF log = <<>> THEN <<>>
    ELSE LET rest == SentOf(SubSeq(log, 1, Len(log) - 1), ptype)
             e == log[Len(log)]
         IN  IF e.dir = "out" /\ e.pkt.ptype = ptype THEN Append(rest, e.pkt) ELSE rest

\* the responses of a type returned so far, in order
RECURSIVE ReturnedOf(_, _)
ReturnedOf(log, ptype) ==
    IF log = <<>> THEN <<>>
    ELSE LET rest == ReturnedOf(SubSeq(log, 1, Len(log) - 1), ptype)
             e == log[Len(log)]
         IN  IF e.dir = "in" /\ e.pkt.ptype = ptype THEN Append(rest, e.pkt) ELSE rest

\* C21: the DATA packets go out in increasing chunk_id (a packet sent again
\* keeps its chunk_id), the first with the next_chunk of the SYN-ACK, each
\* next one with the chunk_id after an ACK of the one before, none beyond
\* total_chunks - 1; the packet of chunk k has seq = chunk_id = k, the bytes
\* [k * chunk_size, min((k+1) * chunk_size, filesize)) of the source as
\* payload, and EOF exactly when k = total_chunks - 1
C21_DataPhase ==
    LET data == SentOf(sndLog, DATA)
        synack == ReturnedOf(sndLog, SYN_ACK)
        acks == ReturnedOf(sndLog, ACK)
        total_chunks == (Len(src) + chunk_size - 1) \div chunk_size
    IN  /\ data # <<>> =>
               /\ Len(synack) = 1
               /\ data[1].chunk_id = ParseNextChunk(synack[1].payload)
        /\ \A i \in DOMAIN data :
               LET k == data[i].chunk_id
                   upto == IF (k + 1) * chunk_size < Len(src)
                           THEN (k + 1) * chunk_size ELSE Len(src)
               IN  /\ k >= 0 /\ k <= total_chunks - 1
                   /\ data[i].seq = k
                   /\ data[i].payload = SubSeq(src, k * chunk_size + 1, upto)
                   /\ HasFlag(data[i].flags, FLAG_EOF) <=> (k = total_chunks - 1)
                   /\ i > 1 => \/ data[i].chunk_id = data[i - 1].chunk_id
                               \/ /\ data[i].chunk_id = data[i - 1].chunk_id + 1
                                  /\ \E j \in DOMAIN acks : acks[j].ack = data[i - 1].chunk_id

\* C21, the case: both chunks of a file of two chunks have gone out, the
\* second with EOF, and the FIN after them
C21_TwoChunksSent ==
    LET data == SentOf(sndLog, DATA)
    IN  /\ Len(data) >= 2
        /\ data[1].chunk_id = 0 /\ ~HasFlag(data[1].flags, FLAG_EOF)
        /\ data[Len(data)].chunk_id = 1 /\ HasFlag(data[Len(data)].flags, FLAG_EOF)
        /\ SentOf(sndLog, FIN) # <<>>

\* C22: a FIN goes out only after the SYN-ACK was returned and an ACK was
\* returned for every chunk from next_chunk to total_chunks - 1, and it has
\* seq = total_chunks; a call that gave up is in error when it gave up in the
\* SYN or a DATA exchange (no packet goes out after that) and reports done
\* when it gave up in the FIN exchange
C22_Termination ==
    LET fin == SentOf(sndLog, FIN)
        synack == ReturnedOf(sndLog, SYN_ACK)
        acks == ReturnedOf(sndLog, ACK)
        total_chunks == TotalChunks(Len(src), chunk_size)
        last == sndLog[Len(sndLog)]
    IN  /\ fin # <<>> =>
               /\ Len(synack) = 1
               /\ \A k \in ParseNextChunk(synack[1].payload)..(total_chunks - 1) :
                     \E j \in DOMAIN acks : acks[j].ack = k
               /\ \A i \in DOMAIN fin : fin[i].seq = total_chunks
        /\ snd.retries > max_retries =>
               IF fin # <<>>
               THEN snd.state = "DONE"
               ELSE /\ snd.state = "ABORTED"
                    /\ last.dir = "out" /\ last.pkt.ptype \in {SYN, DATA}
                    /\ Cardinality({i \in DOMAIN sndLog : sndLog[i] = last}) = snd.sends
        /\ snd.state = "ABORTED" => snd.retries > max_retries
        /\ (snd.state = "DONE" /\ ~snd.fin_acked) => snd.retries > max_retries

\* C22, the case: the FIN exchange has run out of retries after the chunks
\* were acknowledged, and the call reports done
C22_DoneWithoutFinAck ==
    /\ snd.state = "DONE" /\ ~snd.fin_acked
    /\ snd.retries > max_retries
    /\ ReturnedOf(sndLog, ACK) # <<>>
    /\ Len(SentOf(sndLog, FIN)) = max_retries + 1

(* ---------------------------------------------------------------------- *)
(* SpecRestart: the receiver alone, fed the datagrams a sender of src      *)
(* sends (its SYN with or without RESUME, its DATA packets, its FIN) in    *)
(* any order, each handling on record; the receiver process can stop in    *)
(* the middle of a handling, or between two, and start again.              *)
(* ---------------------------------------------------------------------- *)
TransferDatagrams ==
    {encode(p) : p \in {SynPacket(src, chunk_size, resume) : resume \in BOOLEAN}
                       \cup {DataPacket(src, chunk_size, c) :
                                c \in 0..(TotalChunks(Len(src), chunk_size) - 1)}
                       \cup {FinPacket(src, chunk_size)}}

RestartNext ==
    \/ \E data \in TransferDatagrams : ReceiveLogged(data)
    \/ \E data \in TransferDatagrams : CrashIn(OnWire(data, 0))
    \/ CrashIdle

SpecRestart == RcvInit /\ [][RestartNext]_vars

\* a SYN with metadata has just been handled by a receiver that had started
\* again and found the file under its canonical name, the meta file of the
\* finished transfer next to it, and no .part
SynAfterInterruptedCleanup ==
    /\ MetaSyn
    /\ rcvIn[1].sessions = NoSessions
    /\ PathExists(rcvIn[1].fs, FinalPath(SRC_NAME))
    /\ PathExists(rcvIn[1].fs, MetaPath(SRC_NAME))
    /\ ~PathExists(rcvIn[1].fs, PartPath(SRC_NAME))

\* C23: after a stop between the rename of .part to <filename> and the
\* deletion of the meta file, the next SYN for the file finds no .part and
\* starts the session with next_chunk = 0, not with the value of the meta
\* file left behind
C23_StaleMetaIgnored ==
    SynAfterInterruptedCleanup => sessions[InPkt.file_id].next_chunk = 0

(* ---------------------------------------------------------------------- *)
(* SpecMeta: the receiver alone, fed the SYN of src and SYNs that name the  *)
(* same file and differ from it in file_id, in sha256, in chunk_size or in *)
(* filesize, in any order with the DATA packets and the FIN of src, each   *)
(* handling on record.                                                     *)
(* ---------------------------------------------------------------------- *)
\* a SYN with RESUME for the filename of src with the given metadata
VariedSyn(file_id, sha256, cs, size) ==
    LET meta == [k \in {K_filename, K_filesize, K_chunk_size, K_sha256} |->
                    CASE k = K_filename -> SRC_NAME
                      [] k = K_filesize -> <<size>>
                      [] k = K_chunk_size -> <<cs>>
                      [] OTHER -> sha256]
    IN  Packet(SYN, BitOr(FLAG_META_JSON, FLAG_RESUME), file_id, 0, 0, 0,
               json_dumps(meta))

\* the SYN of src, and the SYNs that differ from it in one field
VariedSyns ==
    {VariedSyn(SrcFid, sha256_bytes(src), chunk_size, Len(src)),
     VariedSyn(file_id_from_sha256(sha256_bytes(FOREIGN)), sha256_bytes(src),
               chunk_size, Len(src)),
     VariedSyn(SrcFid, sha256_bytes(FOREIGN), chunk_size, Len(src)),
     VariedSyn(SrcFid, sha256_bytes(src), chunk_size + 1, Len(src)),
     VariedSyn(SrcFid, sha256_bytes(src), chunk_size, Len(src) + 1)}

MetaDatagrams ==
    {encode(p) : p \in VariedSyns
                       \cup {DataPacket(src, chunk_size, c) :
                                c \in 0..(TotalChunks(Len(src), chunk_size) - 1)}
                       \cup {FinPacket(src, chunk_size)}}

\* a file of two chunks, the second one short when chunks are longer than
\* one byte
MetaInit == Init /\ Len(src) = MaxFileSize /\ chunk_size = MaxChunkSize - 1

MetaNext == \E data \in MetaDatagrams : ReceiveLogged(data)

SpecMeta == MetaInit /\ [][MetaNext]_vars

\* the metadata of the SYN just handled
SynDeclared == json_loads(InPkt.payload)

\* the meta file the handler found for a filename, {} when there was none
FoundMeta(filename) == load_json(rcvIn[1].fs, MetaPath(filename), EmptyDict)

\* the SYN just handled differs from the meta file found, or none was found
MetaMismatch ==
    LET found == FoundMeta(SynDeclared[K_filename])
    IN  \/ DictGet(found, K_file_id, NoneVal) # <<InPkt.file_id>>
        \/ DictGet(found, K_sha256, NoneVal) # SynDeclared[K_sha256]
        \/ DictGet(found, K_chunk_size, NoneVal) # SynDeclared[K_chunk_size]
        \/ DictGet(found, K_filesize, NoneVal) # SynDeclared[K_filesize]

\* C24: a SYN that differs from the persisted meta of the filename in
\* file_id, sha256, chunk_size or filesize, or that finds no meta, starts the
\* session with next_chunk = 0 and the metadata of the SYN; a .part that
\* existed is renamed aside with its bytes and no .part is left, so that the
\* chunk the session accepts next, chunk 0, makes a new .part of its payload
C24_MismatchStartsAfresh ==
    /\ (MetaSyn /\ MetaMismatch) =>
           LET s == sessions[InPkt.file_id]
               before == rcvIn[1].fs
               part == PartPath(SynDeclared[K_filename])
           IN  /\ s.next_chunk = 0
               /\ <<s.chunk_size>> = SynDeclared[K_chunk_size]
               /\ <<s.filesize>> = SynDeclared[K_filesize]
               /\ s.sha256 = SynDeclared[K_sha256]
               /\ ~PathExists(fs, part)
               /\ load_json(fs, MetaPath(s.filename), EmptyDict) = SessionDict(s)
               /\ IF PathExists(before, part)
                  THEN /\ rcvLog = <<"rename_part_aside", "save_json", "sendto">>
                       /\ \E q \in DOMAIN fs :
                             /\ q[1] = part[1] /\ q[2] = "part.bak"
                             /\ fs[q] = before[part]
                  ELSE rcvLog = <<"save_json", "sendto">>
    /\ (KnownData /\ InPkt.chunk_id = 0 /\ InPkt.seq = 0
                  /\ FoundSession.next_chunk = 0
                  /\ ~PathExists(rcvIn[1].fs, PartPath(FoundSession.filename))) =>
           Did("append") /\
           (Installed \/ fs[PartPath(FoundSession.filename)] = InPkt.payload)

\* C24, the case: a SYN that differs from the meta file only in chunk_size
\* has just found a .part with a chunk in it
C24_OtherChunkSizeOverPart ==
    /\ MetaSyn /\ MetaMismatch
    /\ PathExists(rcvIn[1].fs, PartPath(SRC_NAME))
    /\ rcvIn[1].fs[PartPath(SRC_NAME)] # <<>>
    /\ LET found == FoundMeta(SRC_NAME)
       IN  /\ DictGet(found, K_file_id, NoneVal) = <<InPkt.file_id>>
           /\ DictGet(found, K_sha256, NoneVal) = SynDeclared[K_sha256]
           /\ DictGet(found, K_filesize, NoneVal) = SynDeclared[K_filesize]
           /\ DictGet(found, K_chunk_size, NoneVal) # SynDeclared[K_chunk_size]
    /\ Did("rename_part_aside")

\* the SYN just handled agrees with the meta file found, and a .part was
\* found next to it
MatchingSynOverPart ==
    /\ MetaSyn
    /\ ~MetaMismatch
    /\ PathExists(rcvIn[1].fs, PartPath(SynDeclared[K_filename]))

\* C25: a SYN that agrees with the persisted meta and finds a .part starts
\* the session with next_chunk = floor(size(.part) / chunk_size), whatever
\* next_chunk the meta file held; and the chunk a session accepts is written
\* at byte offset next_chunk * chunk_size of .part
C25_ResumeReconciliation ==
    /\ MatchingSynOverPart =>
           LET s == sessions[InPkt.file_id]
               size == Len(rcvIn[1].fs[PartPath(s.filename)])
           IN  s.next_chunk = size \div s.chunk_size
    /\ (KnownData /\ Did("append")) =>
           Len(FoundPart) = FoundSession.next_chunk * FoundSession.chunk_size

\* C26: a SYN without META-JSON is answered by one SYN-ACK for its file_id
\* whose payload says next_chunk = 0; the session table and the disk are as
\* they were
C26_SynWithoutMeta ==
    (Handled /\ rcvIn[1].ok /\ InPkt.ptype = SYN
             /\ ~HasFlag(InPkt.flags, FLAG_META_JSON)) =>
        /\ Len(rcvOut) = 1
        /\ rcvOut[1].ptype = SYN_ACK
        /\ rcvOut[1].file_id = InPkt.file_id
        /\ json_loads(rcvOut[1].payload)[K_next_chunk] = <<0>>
        /\ rcvLog = <<"sendto">>
        /\ sessions = rcvIn[1].sessions
        /\ fs = rcvIn[1].fs

\* C26, the case: a SYN without META-JSON has just been handled by a
\* receiver that held a session for its file_id with a chunk written
C26_BareSynOverSession ==
    /\ Handled /\ rcvIn[1].ok /\ InPkt.ptype = SYN
    /\ ~HasFlag(InPkt.flags, FLAG_META_JSON)
    /\ SessionKnown
    /\ FoundSession.next_chunk > 0
    /\ PathExists(rcvIn[1].fs, PartPath(SRC_NAME))
    /\ rcvOut # <<>>

\* C27: a DATA packet whose file_id is not in the session table is ignored:
\* no reply, no effect on the disk, no session
C27_UnknownData ==
    (Handled /\ rcvIn[1].ok /\ InPkt.ptype = DATA /\ ~SessionKnown) =>
        /\ rcvOut = <<>>
        /\ rcvLog = <<>>
        /\ sessions = rcvIn[1].sessions
        /\ fs = rcvIn[1].fs

\* C27, the case: the DATA packet of the chunk a .part waits for has just
\* been handled by a receiver that had started again and seen no SYN
C27_DataAfterRestart ==
    /\ Handled /\ rcvIn[1].ok /\ InPkt.ptype = DATA /\ ~SessionKnown
    /\ crashes > 0
    /\ PathExists(rcvIn[1].fs, PartPath(SRC_NAME))
    /\ PathExists(rcvIn[1].fs, MetaPath(SRC_NAME))
    /\ InPkt.chunk_id * chunk_size = Len(rcvIn[1].fs[PartPath(SRC_NAME)])

(* ---------------------------------------------------------------------- *)
(* SpecGarble: the receiver is handed the datagrams of one transfer and    *)
(* buffers that differ from them (Tampered), in any order, each handling   *)
(* on record.                                                              *)
(* ---------------------------------------------------------------------- *)
GarbledDatagrams == UNION {Tampered(d) : d \in TransferDatagrams}

GarbleInit == Init /\ Len(src) = MaxFileSize /\ chunk_size = MaxChunkSize - 1

GarbleNext ==
    \/ \E data \in TransferDatagrams : ReceiveLogged(data)
    \/ \E data \in GarbledDatagrams : ReceiveLogged(data)

SpecGarble == GarbleInit /\ [][GarbleNext]_vars

\* a datagram that decode rejects has just been handled
Undecodable == Handled /\ ~rcvIn[1].ok

\* C28: a datagram that fails decoding changes no session and no file; the
\* receiver's one reaction is one ERR packet with the payload "bad
\* checksum", sent as every reply of a handling is, to the address the
\* datagram came from
C28_DecodeFailure ==
    Undecodable =>
        /\ sessions = rcvIn[1].sessions
        /\ fs = rcvIn[1].fs
        /\ rcvLog = <<"sendto">>
        /\ rcvOut = << Packet(ERR, 0, 0, 0, 0, 0, MSG_BAD_CHECKSUM) >>

\* C28, the case: a buffer with a wrong magic number has just been handled
\* while a transfer was under way, chunks of it in .part
C28_BadMagicMidTransfer ==
    /\ Undecodable
    /\ Len(rcvIn[1].data.hdr) = 11
    /\ rcvIn[1].data.hdr[1] # MAGIC
    /\ \E fid \in DOMAIN rcvIn[1].sessions : rcvIn[1].sessions[fid].next_chunk > 0
    /\ PathExists(rcvIn[1].fs, PartPath(SRC_NAME))

(* ---------------------------------------------------------------------- *)
(* SpecShortTail: SpecRestart for a file of one chunk that is shorter than *)
(* half of chunk_size.                                                     *)
(* ---------------------------------------------------------------------- *)
ShortTailInit ==
    /\ src = SourceFile(1)
    /\ chunk_size = MaxChunkSize + 1
    /\ snd = IdleSender
    /\ runs = 0
    /\ toRcv = {}
    /\ toSnd = {}
    /\ sessions = NoSessions
    /\ fs = EmptyDisk
    /\ now = 0
    /\ crashes = 0
    /\ rcvIn = <<>>
    /\ rcvOut = <<>>
    /\ rcvLog = <<>>
    /\ codecIn = <<>>
    /\ codecOut = <<>>
    /\ emu = IdleEmulator
    /\ emuOut = {}
    /\ sndLog = <<>>
    /\ sndStep = <<>>
    /\ fwd = IdleForwarder
    /\ serving = TRUE

SpecShortTail == ShortTailInit /\ [][RestartNext]_vars

\* a SYN with the metadata of the session the receiver holds for its file_id
\* has just been handled, the meta file of the session still on disk
DuplicateSyn ==
    /\ MetaSyn
    /\ SessionKnown
    /\ ~MetaMismatch
    /\ FoundSession.filename = SynDeclared[K_filename]

\* C29: a duplicate of the session's SYN before finalization is answered by
\* one SYN-ACK and leaves the session table with the same entries, the
\* session's next_chunk and the bytes of .part as they were
C29_DuplicateSyn ==
    DuplicateSyn =>
        /\ Len(rcvOut) = 1
        /\ rcvOut[1].ptype = SYN_ACK
        /\ rcvOut[1].file_id = InPkt.file_id
        /\ DOMAIN sessions = DOMAIN rcvIn[1].sessions
        /\ sessions[InPkt.file_id].next_chunk = FoundSession.next_chunk
        /\ PathExists(fs, PartPath(SRC_NAME))
               = PathExists(rcvIn[1].fs, PartPath(SRC_NAME))
        /\ PathExists(fs, PartPath(SRC_NAME)) =>
               fs[PartPath(SRC_NAME)] = rcvIn[1].fs[PartPath(SRC_NAME)]

\* a packet of a session the receiver knew has just been handled
KnownSessionHandled == Handled /\ rcvIn[1].ok /\ SessionKnown

\* C30: the SYNs of a session all carrying the same metadata, no handling of
\* a SYN, a DATA or a FIN packet lowers the session's next_chunk, and the one
\* handling that raises it is the acceptance of the expected chunk, which
\* raises it by one
C30_NextChunkMonotone ==
    KnownSessionHandled =>
        LET before == FoundSession.next_chunk
            after == sessions[InPkt.file_id].next_chunk
        IN  /\ after >= before
            /\ after # before =>
                   /\ after = before + 1
                   /\ InPkt.ptype = DATA
                   /\ InPkt.chunk_id = before
                   /\ InPkt.seq = before
                   /\ Did("append")

(* ---------------------------------------------------------------------- *)
(* C31..C40                                                                *)
(* ---------------------------------------------------------------------- *)
(* SpecSndStep: SpecSnd for a file of two chunks, each step on record    *)
(* with the branch of _send_and_wait it took and the sender that took it. *)
\* the branch taken, and the sender that took it
Took(branch) == << [branch |-> branch, was |-> snd] >>

\* the branch of _send_and_wait a datagram returned by recvfrom leads to
BranchOf(data) ==
    LET dec == decode(data)
    IN  IF IsExpectedResponse(snd, dec.pkt, dec.ok) THEN "return"
        ELSE IF dec.ok THEN "rejected" ELSE "corrupt"

SndStepInit == Init /\ Len(src) = MaxFileSize /\ chunk_size = MaxChunkSize - 1

SndStepNext ==
    \/ \E resume \in BOOLEAN : SndStart(resume) /\ sndStep' = Took("call")
    \/ SndTimeout /\ sndStep' = Took("timeout")
    \/ \E data \in AnyResponse : SndReceive(data) /\ sndStep' = Took(BranchOf(data))

SpecSndStep == SndStepInit /\ [][SndStepNext]_vars

\* the sender has just taken a branch of _send_and_wait
SndStepped == sndStep # <<>>

\* the sender as it was before that
SndWas == sndStep[1].was

\* the last response _send_and_wait returned
LastReturned ==
    LET ins == {i \in DOMAIN sndLog : sndLog[i].dir = "in"}
    IN  sndLog[CHOOSE i \in ins : \A j \in ins : j <= i].pkt

\* C31: the sender leaves chunk k for chunk k + 1 only in the step in which
\* _send_and_wait returns a cleanly decoded ACK with ack = k; a timeout, a
\* corrupt datagram, an ACK of another chunk and a packet of another type
\* leave it at chunk k
C31_AdvanceOnlyOnAck ==
    (SndStepped /\ SndWas.state = "SENDING") =>
        IF sndStep[1].branch = "return"
        THEN /\ snd.chunk_id = SndWas.chunk_id + 1
             /\ LastReturned.ptype = ACK
             /\ LastReturned.ack = SndWas.chunk_id
             /\ \E data \in AnyResponse :
                    decode(data).ok /\ decode(data).pkt = LastReturned
        ELSE snd.chunk_id = SndWas.chunk_id

\* C31, the case: the sender has just left chunk 1 after the ACK of chunk 1,
\* having sent chunk 1 again after a response it discarded
C31_AdvancedAfterDiscard ==
    /\ SndStepped
    /\ sndStep[1].branch = "return"
    /\ SndWas.state = "SENDING"
    /\ SndWas.chunk_id = 1
    /\ SndWas.sends > SndWas.retries + 1
    /\ snd.chunk_id = 2

\* C32: within one _send_and_wait the retry counter goes up, by one, in the
\* timeout branch only; a corrupt and a rejected packet leave it as it is;
\* and the exchange that follows a returned response starts with 0
C32_RetryAccounting ==
    SndStepped =>
        CASE sndStep[1].branch = "timeout" -> snd.retries = SndWas.retries + 1
          [] sndStep[1].branch \in {"corrupt", "rejected"} ->
                 snd.retries = SndWas.retries
          [] OTHER -> snd.retries = 0

\* C32, the case: a response has just been returned after a timeout and a
\* discarded packet in the same exchange, and the next packet has gone out
C32_ReturnedAfterRetries ==
    /\ SndStepped
    /\ sndStep[1].branch = "return"
    /\ SndWas.retries > 0
    /\ SndWas.sends > SndWas.retries + 1
    /\ Waiting(snd)
    /\ snd.retries = 0

(* ---------------------------------------------------------------------- *)
(* SpecFwd: the emulator's forward_packet.  Each of the two receive loops  *)
(* hands datagrams to forward_packet, with any outcome of the samples it   *)
(* draws (drop; then delay and duplicate); a delayed copy is sent by a     *)
(* timer thread.  A statement `counter += 1` is a load and a store; a step *)
(* of a thread is one access of a counter with what the thread does alone  *)
(* before it, and the threads interleave between any two steps.            *)
(* ---------------------------------------------------------------------- *)
\* get_delay_ms: the delays followed, in ms
Delays == {0, 1}

\* the thread x of f, changed
WithThread(f, x, pc, call, copy, tmp) ==
    [f EXCEPT !.thr[x] = [pc |-> pc, call |-> call, copy |-> copy, tmp |-> tmp]]

\* send_packet, up to its first access of a counter: sendto, and the load
\* of `self.packets_forwarded += 1`
SendPacketSendto(f, x, call, copy) ==
    WithThread([f EXCEPT !.calls[call].sent = Append(@, x)],
               x, "forwarded_store", call, copy, f.packets_forwarded)

\* a forward_packet that goes on after a drop
forward_packet_without_return(f, t, drop, delay_ms, should_duplicate) ==
    LET n == Len(f.calls) + 1
        g == [f EXCEPT !.calls = Append(@, [by |-> t, drop |-> drop,
                                            delay_ms |-> delay_ms,
                                            should_duplicate |-> should_duplicate,
                                            sent |-> <<>>])]
    IN  IF delay_ms > 0
        THEN LET h == WithThread(g, <<n, 1>>, "set", n, 1, 0)
             IN  IF should_duplicate THEN WithThread(h, <<n, 2>>, "set", n, 2, 0)
                 ELSE h
        ELSE SendPacketSendto(g, t, n, 1)

\* forward_packet, up to its first access of a counter: a dropped datagram
\* is counted and the call returns, no other sample drawn; a delayed one
\* gets a timer, and one more when it is duplicated, and the call returns;
\* one that is not delayed is sent by the caller.  Each call is on record
\* with its samples and the threads that sent a copy so far.
forward_packet(f, t, drop, delay_ms, should_duplicate) ==
    LET n == Len(f.calls) + 1
        g == [f EXCEPT !.calls = Append(@, [by |-> t, drop |-> drop,
                                            delay_ms |-> delay_ms,
                                            should_duplicate |-> should_duplicate,
                                            sent |-> <<>>])]
    IN  IF drop THEN WithThread(g, t, "dropped_store", n, 0, g.packets_dropped)
        ELSE IF delay_ms > 0
        THEN LET h == WithThread(g, <<n, 1>>, "set", n, 1, 0)
             IN  IF should_duplicate THEN WithThread(h, <<n, 2>>, "set", n, 2, 0)
                 ELSE h
        ELSE SendPacketSendto(g, t, n, 1)

\* where a thread goes on after send_packet returned: a timer thread ends;
\* the caller of forward_packet sends the duplicate, or returns to its loop
AfterSendPacket(f, x) ==
    LET me == f.thr[x]
    IN  IF x \in Timers THEN WithThread(f, x, "done", me.call, me.copy, 0)
        ELSE IF f.calls[me.call].should_duplicate /\ me.copy = 1
        THEN SendPacketSendto(f, x, me.call, 2)
        ELSE WithThread(f, x, "recvfrom", 0, 0, 0)

\* send_packet: the load of `self.packets_delayed += 1`
CounterLoad(f, x) ==
    LET me == f.thr[x]
    IN  WithThread(f, x, "delayed_store", me.call, me.copy, f.packets_delayed)

\* the store of `counter += 1`, and what follows it up to the next access
\* of a counter
CounterStore(f, x) ==
    LET me == f.thr[x]
    IN  CASE me.pc = "forwarded_store" ->
                 LET g == [f EXCEPT !.packets_forwarded = me.tmp + 1]
                 IN  IF f.calls[me.call].delay_ms > 0
                     THEN WithThread(g, x, "delayed_load", me.call, me.copy, 0)
                     ELSE AfterSendPacket(g, x)
          [] me.pc = "delayed_store" ->
                 AfterSendPacket([f EXCEPT !.packets_delayed = me.tmp + 1], x)
          [] me.pc = "dropped_store" ->
                 WithThread([f EXCEPT !.packets_dropped = me.tmp + 1],
                            x, "recvfrom", 0, 0, 0)

FwdQuiet ==
    UNCHANGED <<src, chunk_size, snd, runs, toRcv, toSnd, sessions, fs, now,
                crashes, rcvIn, rcvOut, rcvLog, codecIn, codecOut, emu, emuOut,
                sndLog, sndStep, serving>>

\* a receive loop hands a datagram to forward_packet, which drops it
FwdDrop(t) ==
    /\ fwd.thr[t].pc = "recvfrom"
    /\ Len(fwd.calls) < MaxCalls
    /\ fwd' = forward_packet(fwd, t, TRUE, 0, FALSE)
    /\ FwdQuiet

\* the timer threads that are set or running
LiveTimers == {x \in Timers : fwd.thr[x].pc \notin {"unset", "done"}}

\* a receive loop hands a datagram to forward_packet, which does not drop it
FwdCall(t, delay_ms, should_duplicate) ==
    /\ fwd.thr[t].pc = "recvfrom"
    /\ Len(fwd.calls) < MaxCalls
    /\ delay_ms > 0 =>
           Cardinality(LiveTimers) + (IF should_duplicate THEN 2 ELSE 1) <= MaxTimers
    /\ fwd' = forward_packet(fwd, t, FALSE, delay_ms, should_duplicate)
    /\ FwdQuiet

\* a timer has run out: its thread calls send_packet
FwdTimer(x) ==
    /\ fwd.thr[x].pc = "set"
    /\ fwd' = SendPacketSendto(fwd, x, fwd.thr[x].call, fwd.thr[x].copy)
    /\ FwdQuiet

FwdLoad(x) ==
    /\ fwd.thr[x].pc = "delayed_load"
    /\ fwd' = CounterLoad(fwd, x)
    /\ FwdQuiet

FwdStore(x) ==
    /\ fwd.thr[x].pc \in {"forwarded_store", "delayed_store", "dropped_store"}
    /\ fwd' = CounterStore(fwd, x)
    /\ FwdQuiet

FwdInit == Init /\ src = <<>> /\ chunk_size = 1

FwdNext ==
    \/ \E t \in Loops : FwdDrop(t)
    \/ \E t \in Loops, delay_ms \in Delays, dup \in BOOLEAN : FwdCall(t, delay_ms, dup)
    \/ \E x \in Timers : FwdTimer(x)
    \/ \E x \in Timers : FwdLoad(x)
    \/ \E x \in Loops \cup Timers : FwdStore(x)

SpecFwd == FwdInit /\ [][FwdNext]_vars

\* the copies of the datagram of call n sent so far
Copies(n) == Len(fwd.calls[n].sent)

\* no thread is in call n any more and no timer of it is set
CallOver(n) ==
    \A x \in Loops \cup Timers :
        fwd.thr[x].call = n => fwd.thr[x].pc \in {"done", "recvfrom"}

\* C33: of a datagram handed to forward_packet the emulator sends no copy
\* when it is dropped, and else one copy, or two when it is duplicated,
\* never more; with a delay of zero the caller itself sends the copies, no
\* timer is set, and the duplicate is out when forward_packet returns
C33_DropAndDuplicate ==
    \A n \in DOMAIN fwd.calls :
        LET c == fwd.calls[n]
        IN  /\ Copies(n) <= 2
            /\ c.drop => Copies(n) = 0 /\ \A x \in Timers : fwd.thr[x].call # n
            /\ ~c.should_duplicate => Copies(n) <= 1
            /\ (CallOver(n) /\ ~c.drop) =>
                   Copies(n) = IF c.should_duplicate THEN 2 ELSE 1
            /\ c.delay_ms = 0 =>
                   /\ \A i \in DOMAIN c.sent : c.sent[i] = c.by
                   /\ \A x \in Timers : fwd.thr[x].call # n
                   /\ (fwd.thr[c.by].call # n /\ ~c.drop) =>
                          Copies(n) = IF c.should_duplicate THEN 2 ELSE 1

\* C33, the case: a datagram that was neither dropped nor delayed has been
\* sent twice by the loop that forwarded it, and another one was dropped
\* and counted
C33_DuplicatedAndDropped ==
    \E n, m \in DOMAIN fwd.calls :
        /\ ~fwd.calls[n].drop /\ fwd.calls[n].delay_ms = 0
        /\ fwd.calls[n].should_duplicate
        /\ Copies(n) = 2
        /\ fwd.calls[m].drop
        /\ CallOver(m)
        /\ fwd.packets_dropped = 1

\* no thread of the emulator is between the load and the store of a counter,
\* or between two statements of send_packet
FwdAtRest ==
    \A x \in Loops \cup Timers : fwd.thr[x].pc \in {"recvfrom", "unset", "set", "done"}

\* the copies sent so far of the first n calls, of all or of the delayed ones
RECURSIVE CopiesUpTo(_, _)
CopiesUpTo(n, delayedOnly) ==
    IF n = 0 THEN 0
    ELSE CopiesUpTo(n - 1, delayedOnly)
         + (IF delayedOnly /\ fwd.calls[n].delay_ms = 0 THEN 0 ELSE Copies(n))

\* C34: whatever the interleaving of the two receive loops and the timer
\* threads, no update of the emulator's counters is lost: with every thread
\* at rest, packets_forwarded is the number of copies sent, packets_delayed
\* the number of delayed copies sent, packets_dropped the number of
\* datagrams dropped
C34_NoLostUpdate ==
    FwdAtRest =>
        /\ fwd.packets_forwarded = CopiesUpTo(Len(fwd.calls), FALSE)
        /\ fwd.packets_delayed = CopiesUpTo(Len(fwd.calls), TRUE)
        /\ fwd.packets_dropped
               = Cardinality({n \in DOMAIN fwd.calls : fwd.calls[n].drop})

\* C35: the next_chunk of the SYN-ACK that answers a SYN with META-JSON is
\* the next_chunk of the session the SYN left in the table, the one
\* _handle_data compares the next DATA packet with
C35_HandshakeConsistency ==
    MetaSyn =>
        /\ Len(rcvOut) = 1
        /\ rcvOut[1].ptype = SYN_ACK
        /\ ParseNextChunk(rcvOut[1].payload) = sessions[InPkt.file_id].next_chunk

\* C36: an ACK with ack = k goes out for a session only when chunk k of the
\* session has been appended, that is, when the session's next_chunk is
\* above k; also for a session with next_chunk = 0
C36_AckOnlyWritten ==
    (Handled /\ rcvIn[1].ok) =>
        \A i \in DOMAIN rcvOut :
            rcvOut[i].ptype = ACK =>
                /\ rcvOut[i].file_id \in DOMAIN sessions
                /\ sessions[rcvOut[i].file_id].next_chunk > rcvOut[i].ack

\* the receiver as it would be after handling, intact, the packet the
\* sender is waiting on
AfterPending ==
    Last(ServeOne(RcvState, encode(PendingPacket(snd, src, chunk_size)), now),
         RcvState)

\* the sender waits on a packet that the receiver, as it is, answers without
\* changing its sessions or its disk, and with nothing the sender takes:
\* each answer makes the sender send the packet again, no retry counted, to
\* the same receiver
Livelocked ==
    /\ Waiting(snd)
    /\ AfterPending.sessions = sessions
    /\ AfterPending.fs = fs
    /\ AfterPending.out # <<>>
    /\ \A i \in DOMAIN AfterPending.out :
           ~IsExpectedResponse(snd, AfterPending.out[i], TRUE)

\* C37: every call of send_file ends, done or aborted, whatever the network
\* and the receiver do; the sender is never left sending one packet again
\* and again: no state is reached from which a network that delivers every
\* datagram in time keeps the sender in its exchange for ever
C37_SenderTermination == ~Livelocked

(* ---------------------------------------------------------------------- *)
(* SpecShared: the receiver alone, fed the datagrams of two transfers that *)
(* go on at the same time, of src and of another file, both declaring the  *)
(* filename of src, in any order, each handling on record.                 *)
(* ---------------------------------------------------------------------- *)
SharedDatagrams ==
    UNION {{encode(p) : p \in {SynPacket(file, chunk_size, TRUE),
                               FinPacket(file, chunk_size)}
                              \cup {DataPacket(file, chunk_size, c) :
                                       c \in 0..(TotalChunks(Len(file), chunk_size) - 1)}} :
           file \in {src, FOREIGN}}

SharedInit == Init /\ Len(src) = MaxFileSize /\ chunk_size = MaxChunkSize - 1

SharedNext == \E data \in SharedDatagrams : ReceiveLogged(data)

SpecShared == SharedInit /\ [][SharedNext]_vars

\* the file at a path of a disk, <<>> as a one-element sequence or nothing
FileAt(disk, path) == IF PathExists(disk, path) THEN <<disk[path]>> ELSE <<>>

\* C38: handling a SYN, DATA or FIN packet of one file_id leaves every
\* session of another file_id as it was: its next_chunk, its .part and its
\* meta file, also when both sessions declare the same filename
C38_SessionIsolation ==
    (Handled /\ rcvIn[1].ok) =>
        \A B \in DOMAIN rcvIn[1].sessions \ {InPkt.file_id} :
            LET was == rcvIn[1].sessions[B]
            IN  /\ B \in DOMAIN sessions
                /\ sessions[B].next_chunk = was.next_chunk
                /\ FileAt(fs, PartPath(was.filename))
                       = FileAt(rcvIn[1].fs, PartPath(was.filename))
                /\ FileAt(fs, MetaPath(was.filename))
                       = FileAt(rcvIn[1].fs, MetaPath(was.filename))

(* ---------------------------------------------------------------------- *)
(* SpecRobust: the receiver alone, fed the datagrams of the transfer of    *)
(* src and two more SYNs whose checksums are right: one whose payload is   *)
(* not JSON, one that declares chunk_size 0; each handling on record.      *)
(* ---------------------------------------------------------------------- *)
\* a payload json.loads rejects: a field that ends before its length
NOT_JSON == <<K_filename, 2, 114>>

MalformedSyn == Packet(SYN, FLAG_META_JSON, SrcFid, 0, 0, 0, NOT_JSON)

ZeroChunkSyn == VariedSyn(SrcFid, sha256_bytes(src), 0, Len(src))

RobustDatagrams ==
    TransferDatagrams \cup {encode(MalformedSyn), encode(ZeroChunkSyn)}

RobustInit == Init /\ Len(src) = MaxFileSize /\ chunk_size = MaxChunkSize - 1

RobustNext == \E data \in RobustDatagrams : ReceiveLogged(data)

SpecRobust == RobustInit /\ [][RobustNext]_vars

\* C39: after handling any received datagram, also a SYN with META-JSON and
\* a right checksum whose payload is not JSON or declares chunk_size 0, the
\* receive loop is still running
C39_LoopSurvives == Handled => serving

\* the transfer of src is finalized on a disk: the file is delivered, its
\* .part and its meta file are gone
Finalized(disk) ==
    /\ PathExists(disk, FinalPath(SRC_NAME))
    /\ ~PathExists(disk, PartPath(SRC_NAME))
    /\ ~PathExists(disk, MetaPath(SRC_NAME))

\* C40: once the session is finalized, handling a late duplicate of a SYN,
\* DATA or FIN packet of the transfer leaves the delivered file in place as
\* it is and creates no .part and no meta file
C40_FinalizedStays ==
    (Handled /\ rcvIn[1].ok /\ crashes = 0 /\ Finalized(rcvIn[1].fs)) =>
        /\ Finalized(fs)
        /\ fs[FinalPath(SRC_NAME)] = rcvIn[1].fs[FinalPath(SRC_NAME)]

====
